---- MODULE Spec2Model ----
(***************************************************************************)
(* Model of the tiling / stitching engine of the Data_preparation tool:    *)
(*   app/splitter.py  split_large_image  (grid, per-tile streaming loop,   *)
(*                                        manifests, result)               *)
(*                    _extract_crop_as_uint8, _ensure_format_compat        *)
(*                                       (band selection, format guard)    *)
(*   app/merger.py    merge_tiles        (folder merge)                    *)
(*                    merge_tiles_from_manifest  (manifest merge)          *)
(*   app/splitter.py  _normalize_to_uint8                                  *)
(*   app/gui.py       the progress total of the split worker and the       *)
(*                    merge workers with their Cancel button               *)
(* Pixel coordinates, tile boxes, file names and manifest rows are kept    *)
(* concrete; pixel values are kept as the identity of the source pixel     *)
(* they were copied from.                                                  *)
(***************************************************************************)
EXTENDS Integers, Sequences, FiniteSets, TLC

(***************************************************************************)
(* Bounds of the model.                                                    *)
(***************************************************************************)
\* largest raster height / width of the grid-only specification
MaxGridDim == 8
\* largest tile size of the grid-only specification
MaxGridTile == 6

\* largest raster height of a modelled split run
MaxH == 2
\* largest raster width of a modelled split run
MaxW == 3
\* largest tile size of a modelled split run
MaxTile == 2
\* the environment makes secondary-tile steps fail only at the grid indices
\* 0..MaxT2FailIndex (any subset of them)
MaxT2FailIndex == 1
\* longest selected_bands list of a modelled split run with a band selection
MaxRunBands == 2
\* largest channel count of an array handed to the format guard on its own
MaxGuardChannels == 6
\* largest width / height of a tile file of a folder handed to merge_tiles
MaxMergeTile == 2
\* largest number of data rows of a manifest handed to merge_tiles_from_manifest
MaxManifestRows == 2
\* largest band count of a crop handed to _extract_crop_as_uint8 on its own,
\* and longest selected_bands list of such a call
MaxCropChannels == 4
\* largest channel count and number of samples per channel of an array handed
\* to _normalize_to_uint8 on its own
MaxNormChannels == 2
MaxNormSamples == 3
\* largest number of tiles (files or manifest rows) a merge worker goes through
MaxWorkerTiles == 3

\* overlap percentages of the grid-only specification: every integer in [0,100)
GridPcts == 0..99

\* overlap percentages of a modelled split run (100 fails the range check)
RunPcts == {0, 50, 99, 100}

(***************************************************************************)
(* Arithmetic helpers (Python built-ins used by the splitter).             *)
(***************************************************************************)
Max(a, b) == IF a >= b THEN a ELSE b

Min(a, b) == IF a <= b THEN a ELSE b

\* Python 3 round() of the exact quotient n/d (n >= 0, d > 0): nearest
\* integer, ties to the even neighbour.
RoundHalfEven(n, d) ==
    LET q == n \div d
        r == n % d
    IN  IF 2 * r < d THEN q
        ELSE IF 2 * r > d THEN q + 1
        ELSE IF q % 2 = 0 THEN q ELSE q + 1

\* ceil(n / d) for n >= 0, d > 0
CeilDiv(n, d) == (n + d - 1) \div d

(***************************************************************************)
(* Grid computation: splitter.py lines 235-241.                            *)
(***************************************************************************)
\* overlap_px = int(round(tile_size * float(overlap_pct) / 100.0))
OverlapPx(ts, pct) == RoundHalfEven(ts * pct, 100)

\* an overlap as large as the tile falls back to no overlap
StepNoOverlapWhenDegenerate(ts, pct) ==
    LET o == OverlapPx(ts, pct)
    IN  IF o <= 0 \/ o >= ts THEN ts ELSE ts - o

\* a sign slip in the step: the overlap is added instead of subtracted
StepWidened(ts, pct) ==
    LET o == OverlapPx(ts, pct)
    IN  IF o <= 0 THEN ts ELSE Max(1, ts + o)

\* step = tile_size if overlap_px <= 0 else max(1, tile_size - overlap_px)
Step(ts, pct) ==
    LET o == OverlapPx(ts, pct)
    IN  IF o <= 0 THEN ts ELSE Max(1, ts - o)

\* range(0, n, st) as the sequence of its values (st >= 1)
Range(n, st) == [k \in 1..CeilDiv(n, st) |-> (k - 1) * st]

\* the boxes are not clipped at the raster boundary
CoordsUnclipped(h, w, ts, st) ==
    LET ys == Range(h, st)
        xs == Range(w, st)
        nx == Len(xs)
    IN  [k \in 1..(Len(ys) * nx) |->
            LET y == ys[((k - 1) \div nx) + 1]
                x == xs[((k - 1) % nx) + 1]
            IN  <<y, x, y + ts, x + ts>>]

\* the last row and the last column of the grid are dropped
CoordsShort(h, w, ts, st) ==
    LET ys == Range(h - 1, st)
        xs == Range(w - 1, st)
        nx == Len(xs)
    IN  [k \in 1..(Len(ys) * nx) |->
            LET y == ys[((k - 1) \div nx) + 1]
                x == xs[((k - 1) % nx) + 1]
            IN  <<y, x, Min(y + ts, h), Min(x + ts, w)>>]

\* coords = [(y, x, min(y+tile_size, H), min(x+tile_size, W))
\*           for y in range(0, H, step) for x in range(0, W, step)]
\* a box is <<y, x, y2, x2>>, in row-major order
Coords(h, w, ts, st) ==
    LET ys == Range(h, st)
        xs == Range(w, st)
        nx == Len(xs)
    IN  [k \in 1..(Len(ys) * nx) |->
            LET y == ys[((k - 1) \div nx) + 1]
                x == xs[((k - 1) % nx) + 1]
            IN  <<y, x, Min(y + ts, h), Min(x + ts, w)>>]

\* pixel (px, py) lies inside box b
InBox(px, py, b) == b[1] <= py /\ py < b[3] /\ b[2] <= px /\ px < b[4]

(***************************************************************************)
(* File names.  A string is the sequence of its character codes, so that   *)
(* sorting paths and matching the tile-name pattern work on characters as  *)
(* they do in the program.                                                 *)
(***************************************************************************)
\* "_tile_"
LitTile == <<95, 116, 105, 108, 101, 95>>

\* "_"
LitUnderscore == <<95>>

\* "t"
LitT == <<116>>

\* ".png", ".jpg"
ExtPng == <<46, 112, 110, 103>>

ExtJpg == <<46, 106, 112, 103>>

\* ".jpeg", ".webp", ".tif", ".tiff", ".bmp"
ExtJpeg == <<46, 106, 112, 101, 103>>

ExtWebp == <<46, 119, 101, 98, 112>>

ExtTif == <<46, 116, 105, 102>>

ExtTiff == <<46, 116, 105, 102, 102>>

ExtBmp == <<46, 98, 109, 112>>

\* base name of the primary input file (base_in), here "a"
BaseIn == <<97>>

\* "_T2"
LitT2 == <<95, 84, 50>>

IsDigit(c) == 48 <= c /\ c <= 57

\* [A-Za-z0-9]
IsAlnum(c) == IsDigit(c) \/ (65 <= c /\ c <= 90) \/ (97 <= c /\ c <= 122)

\* str(n) for n >= 0
RECURSIVE Digits(_)
Digits(n) == IF n < 10 THEN <<48 + n>> ELSE Digits(n \div 10) \o <<48 + (n % 10)>>

\* int(s) for a string of digits
RECURSIVE ToInt(_)
ToInt(s) == IF Len(s) = 0 THEN 0
            ELSE 10 * ToInt(SubSeq(s, 1, Len(s) - 1)) + (s[Len(s)] - 48)

\* format(n, "0<pad>d"): str(n) left-padded with zeros to width pad
RECURSIVE ZeroPad(_, _)
ZeroPad(s, pad) == IF Len(s) >= pad THEN s ELSE ZeroPad(<<48>> \o s, pad)

\* s < t in Python's string order (code point by code point, prefix first)
RECURSIVE StrLess(_, _)
StrLess(s, t) ==
    IF Len(t) = 0 THEN FALSE
    ELSE IF Len(s) = 0 THEN TRUE
    ELSE IF s[1] # t[1] THEN s[1] < t[1]
    ELSE StrLess(Tail(s), Tail(t))

EndsWith(s, suffix) ==
    /\ Len(s) >= Len(suffix)
    /\ SubSeq(s, Len(s) - Len(suffix) + 1, Len(s)) = suffix

(***************************************************************************)
(* Name patterns: splitter.py lines 272-279 (and 297-304 for T2).  A       *)
(* pattern is a sequence of tokens; a token is literal text (f = "lit")    *)
(* or a replacement field {f} / {f:0<pad>d}.                               *)
(***************************************************************************)
Lit(s) == [f |-> "lit", s |-> s, pad |-> 0]

Field(name) == [f |-> name, s |-> <<>>, pad |-> 0]

\* {name:0<pad>d}
FieldPad(name, pad) == [f |-> name, s |-> <<>>, pad |-> pad]

\* "{base}_tile_{y}_{x}", the default of the name_pattern argument
PatDefault == <<Field("base"), Lit(LitTile), Field("y"), Lit(LitUnderscore), Field("x")>>

\* "t_{i}"
PatIndex == <<Lit(LitT), Lit(LitUnderscore), Field("i")>>

\* "{base}_{i}"
PatBaseIndex == <<Field("base"), Lit(LitUnderscore), Field("i")>>

\* "{base}_{i:05d}"
PatBaseIndexPad == <<Field("base"), Lit(LitUnderscore), FieldPad("i", 5)>>

\* "{base}_{z}": {z} is no token of the pattern language
PatUnknown == <<Field("base"), Lit(LitUnderscore), Field("z")>>

\* the keyword arguments of the second format() call
SecondPassFields == {"base", "y", "x", "row", "col", "ext"}

FieldsOf(pat) == {pat[k].f : k \in 1..Len(pat)} \ {"lit"}

\* fname.format(i=i) succeeds: every field of the pattern is {i}
FirstPassOk(pat) == FieldsOf(pat) \subseteq {"i"}

\* the second format() call succeeds: after a successful first pass no
\* field is left; after a failed one the pattern is unchanged and every
\* field must be one of the second call's keywords
NameRenders(pat) == FirstPassOk(pat) \/ FieldsOf(pat) \subseteq SecondPassFields

TokenText(tok, base, y, x, i, ext) ==
    CASE tok.f = "lit" -> tok.s
      [] tok.f = "base" -> base
      [] tok.f \in {"y", "row"} -> ZeroPad(Digits(y), tok.pad)
      [] tok.f \in {"x", "col"} -> ZeroPad(Digits(x), tok.pad)
      [] tok.f = "i" -> ZeroPad(Digits(i), tok.pad)
      [] tok.f = "ext" -> Tail(ext)
      [] OTHER -> <<>>

RECURSIVE Concat(_, _, _, _, _, _)
Concat(pat, base, y, x, i, ext) ==
    IF Len(pat) = 0 THEN <<>>
    ELSE TokenText(pat[1], base, y, x, i, ext) \o Concat(Tail(pat), base, y, x, i, ext)

\* the rendered tile file name (defined when NameRenders(pat)); the target
\* extension is appended when the name does not end with it
RenderName(pat, base, y, x, i, ext) ==
    LET n == Concat(pat, base, y, x, i, ext)
    IN  IF EndsWith(n, ext) THEN n ELSE n \o ext

(***************************************************************************)
(* Tile-name matching: merger.py lines 14 and 31-41.                       *)
(*   _TILE_RE = r".*_(\d+)_(\d+)\.[A-Za-z0-9]+$"                           *)
(***************************************************************************)
\* index of the last "." of s, 0 when there is none
LastDot(s) ==
    LET ds == {k \in 1..Len(s) : s[k] = 46}
    IN  IF ds = {} THEN 0 ELSE CHOOSE k \in ds : \A j \in ds : j <= k

\* first index of the run of digits of s that ends at index e (e + 1 when
\* s[e] is no digit)
DigitRunStart(s, e) ==
    LET nd == {k \in 1..e : ~IsDigit(s[k])}
    IN  IF nd = {} THEN 1 ELSE (CHOOSE k \in nd : \A j \in nd : j <= k) + 1

\* the match of _TILE_RE on a base name: [ok, x, y]
MatchTile(s) ==
    LET d  == LastDot(s)
        xs == IF d >= 2 THEN DigitRunStart(s, d - 1) ELSE 1
        ys == IF xs >= 3 THEN DigitRunStart(s, xs - 2) ELSE 1
        ok == /\ d >= 2
              /\ d < Len(s)
              /\ \A k \in (d + 1)..Len(s) : IsAlnum(s[k])
              /\ xs <= d - 1
              /\ xs >= 3
              /\ s[xs - 1] = 95
              /\ ys <= xs - 2
              /\ ys >= 2
              /\ s[ys - 1] = 95
    IN  IF ok THEN [ok |-> TRUE, x |-> ToInt(SubSeq(s, xs, d - 1)),
                    y |-> ToInt(SubSeq(s, ys, xs - 2))]
        ELSE [ok |-> FALSE, x |-> 0, y |-> 0]

\* _extract_xy_from_name: (x, y) from the suffix _<y>_<x>.<ext>
ExtractXY(s) == MatchTile(s)

(***************************************************************************)
(* Format guard: splitter.py lines 82-107.  An array is described by its   *)
(* channel count c; c = 0 stands for a 2-D (single band) array.            *)
(***************************************************************************)
EnsureFormatCompat(c, ext, policy) ==
    IF c = 0 THEN [ok |-> TRUE, c |-> c, note |-> "none"]
    ELSE IF ext \in {ExtJpg, ExtJpeg, ExtWebp} /\ c \notin {1, 3}
         THEN IF policy = "auto"
              THEN [ok |-> TRUE, c |-> Min(c, 3), note |-> "first3"]
              ELSE [ok |-> FALSE, c |-> c, note |-> "none"]
    ELSE IF ext \in {ExtPng, ExtTif, ExtTiff} /\ c > 4
         THEN IF policy = "auto"
              THEN [ok |-> TRUE, c |-> 4, note |-> "first4"]
              ELSE [ok |-> FALSE, c |-> c, note |-> "none"]
    ELSE [ok |-> TRUE, c |-> c, note |-> "none"]

(***************************************************************************)
(* Band selection of a crop: splitter.py lines 122-151.  A crop is the     *)
(* sequence of the source channels it holds (0-based); selected_bands is   *)
(* None (given = FALSE) or a list of integers.                             *)
(***************************************************************************)
NoBands == [given |-> FALSE, idx |-> <<>>]

Bands(s) == [given |-> TRUE, idx |-> s]

\* seq[b] is defined for a Python sequence of length n
PyIndexOk(n, b) == -n <= b /\ b < n

\* the 1-based position Python's seq[b] reads
PyIndex(n, b) == IF b >= 0 THEN b + 1 ELSE n + b + 1

\* max(selected_bands) of a non-empty list
MaxSeq(s) == CHOOSE m \in {s[k] : k \in 1..Len(s)} : \A k \in 1..Len(s) : s[k] <= m

\* seq[b] for every b of the list sel
Pick(seq, sel) == [k \in 1..Len(sel) |-> seq[PyIndex(Len(seq), sel[k])]]

\* lines 131-145: the selection through Pillow's split / merge; every
\* exception in it (max of an empty list, an index out of range, a merge of
\* two bands into "RGBA") is swallowed and leaves the crop as it was
PilSelect(parts, sel) ==
    IF /\ sel.given
       /\ sel.idx # <<>>
       /\ Len(parts) >= MaxSeq(sel.idx) + 1
       /\ \A k \in 1..Len(sel.idx) : PyIndexOk(Len(parts), sel.idx[k])
       /\ Len(sel.idx) # 2
    THEN LET parts_sel == Pick(parts, sel.idx)
         IN  IF Len(parts_sel) <= 4 THEN parts_sel ELSE SubSeq(parts_sel, 1, 4)
    ELSE parts

\* _extract_crop_as_uint8 on a crop of an 8-bit raster of C bands:
\* [ok, ndim, bands]; a single-band image is a 2-D array
ExtractCrop(C, sel) ==
    LET crop == PilSelect([k \in 1..C |-> k - 1], sel)
        ndim == IF Len(crop) = 1 THEN 2 ELSE 3
        failed == [ok |-> FALSE, ndim |-> ndim, bands |-> crop]
    IN  IF ndim = 3 /\ sel.given
        THEN IF sel.idx = <<>> THEN failed
             ELSE IF Len(crop) >= MaxSeq(sel.idx) + 1
                  THEN IF \A k \in 1..Len(sel.idx) : PyIndexOk(Len(crop), sel.idx[k])
                       THEN [ok |-> TRUE, ndim |-> 3, bands |-> Pick(crop, sel.idx)]
                       ELSE failed
                  ELSE [ok |-> TRUE, ndim |-> 3, bands |-> crop]
        ELSE [ok |-> TRUE, ndim |-> ndim, bands |-> crop]

\* the channel count of an array as the format guard sees it (0: 2-D)
ArrC(arr) == IF arr.ndim = 2 THEN 0 ELSE Len(arr.bands)

\* the channels left of an array after the format guard kept c of them
Kept(arr, c) == IF arr.ndim = 2 THEN arr.bands ELSE SubSeq(arr.bands, 1, c)

\* Image.fromarray(arr).save(path) (lines 282, 307) succeeds: fromarray takes
\* a 2-D array or one of 2, 3 or 4 channels; the JPEG encoder writes the
\* modes L and RGB only
SaveOk(c, ext) ==
    /\ c \in {0, 2, 3, 4}
    /\ ext \in {ExtJpg, ExtJpeg} => c \in {0, 3}

\* Pillow's mode of an image made by Image.fromarray from a uint8 array
ModeOf(c) ==
    CASE c \in {0, 1} -> "L"
      [] c = 2 -> "LA"
      [] c = 3 -> "RGB"
      [] OTHER -> "RGBA"

\* RGB rasters written as .png under the default policy
FmtDefault == [c1 |-> 3, c2 |-> 3, ext |-> ExtPng, policy |-> "auto"]

\* the (channels of T1, channels of T2, extension, policy) cases of a run
FormatCases ==
    { FmtDefault,
      [c1 |-> 4, c2 |-> 4, ext |-> ExtJpg, policy |-> "auto"],
      [c1 |-> 3, c2 |-> 4, ext |-> ExtJpg, policy |-> "auto"],
      [c1 |-> 3, c2 |-> 4, ext |-> ExtJpg, policy |-> "strict"],
      [c1 |-> 4, c2 |-> 3, ext |-> ExtJpg, policy |-> "strict"] }

\* the name_pattern arguments of a run
Patterns == {PatDefault, PatIndex, PatBaseIndex, PatBaseIndexPad, PatUnknown}

\* the t2_path argument: absent (or no file), a file no decoder opens, a
\* raster of another size, a raster of the primary's size
T2Kinds == {"none", "unopenable", "mismatch", "ok"}

\* the argument combinations of a run: with the default pattern and format,
\* every secondary, with and without manifest and callback; every other
\* pattern and every other format without and with a usable secondary, as
\* the front end calls the splitter (manifest and callback on)
RunCases ==
    [pat : {PatDefault}, fmt : {FmtDefault}, t2 : T2Kinds,
     wm : BOOLEAN, prog : BOOLEAN]
    \cup [pat : Patterns \ {PatDefault}, fmt : {FmtDefault}, t2 : {"none", "ok"},
          wm : {TRUE}, prog : {TRUE}]
    \cup [pat : {PatDefault}, fmt : FormatCases \ {FmtDefault}, t2 : {"none", "ok"},
          wm : {TRUE}, prog : {TRUE}]

NoNote == [kind |-> "none", y |-> 0, x |-> 0]

NoResult ==
    [tiles |-> 0, t1_dir |-> "", t2_dir |-> "", t1_manifest |-> "",
     t2_manifest |-> "", t2_used |-> FALSE, note |-> NoNote]

\* no helper is called on its own
NoCall == [fn |-> "none"]

\* no progress dialog has been created
NoDialog == [shown |-> FALSE, cancelled |-> FALSE, closing |-> FALSE, destroyed |-> FALSE]

NoMerge ==
    [status |-> "none", dir |-> "", W |-> 0, H |-> 0, mode |-> "",
     canvas |-> [p \in {} |-> 0]]

VARIABLES
    H, W,            \* size of the primary raster (im1.size = (W, H))
    tile_size,       \* argument tile_size
    overlap_pct,     \* argument overlap_pct (integer percent)
    t2_kind,         \* what the t2_path argument names
    write_manifest,  \* argument write_manifest
    has_progress,    \* whether a progress callback was passed
    name_pattern,    \* argument name_pattern
    fmt,             \* bands of the rasters, extension, policy
    selected_bands,  \* argument selected_bands
    call,            \* a helper called on its own: its arguments and return value
    step,            \* local step
    coords,          \* local coords
    pc,              \* position of the call
    i,               \* loop index
    tiles,           \* local tiles
    rows_t1,         \* local rows_t1
    rows_t2,         \* local rows_t2
    info_note,       \* local info_note
    t2_used,         \* local t2_used
    im2_ref,         \* local im2 is not None
    handles,         \* state of the raster handles opened by the call
    dirs,            \* directories the call has created
    files,           \* tile files on disk: path |-> content
    manifest_files,  \* manifest.csv files on disk: directory |-> rows
    calls,           \* the progress callback's calls: <<i, total, returned>>
    error,           \* the exception the call raised
    result,          \* the dictionary the call returned
    merged,          \* outcome of merge_tiles
    pd,              \* the ProgressDialog of a merge worker
    clicked_at       \* where the worker was when Cancel was first clicked

inputs == <<H, W, tile_size, overlap_pct, t2_kind, write_manifest,
            has_progress, name_pattern, fmt, selected_bands, call>>

locals == <<step, coords, i, tiles, rows_t1, rows_t2, info_note, t2_used, im2_ref>>

dialog == <<pd, clicked_at>>

vars == <<inputs, locals, pc, handles, dirs, files, manifest_files, calls,
          error, result, merged, dialog>>

DefaultsButFiles ==
    /\ step = 0
    /\ coords = <<>>
    /\ pc = "start"
    /\ i = 0
    /\ tiles = 0
    /\ rows_t1 = <<>>
    /\ rows_t2 = <<>>
    /\ info_note = NoNote
    /\ t2_used = FALSE
    /\ im2_ref = FALSE
    /\ handles = [h \in {"im1", "im2"} |-> "unopened"]
    /\ dirs = {}
    /\ manifest_files = [d \in {} |-> <<>>]
    /\ calls = <<>>
    /\ error = ""
    /\ result = NoResult
    /\ merged = NoMerge
    /\ pd = NoDialog
    /\ clicked_at = "none"

Defaults ==
    /\ DefaultsButFiles
    /\ files = [p \in {} |-> 0]

(***************************************************************************)
(* Grid-only specification: the grid of lines 235-241 as a pure function   *)
(* of (H, W, tile_size, overlap_pct), on inputs that passed the range      *)
(* checks of lines 186-189.                                                *)
(***************************************************************************)
GridInit ==
    /\ H \in 1..MaxGridDim
    /\ W \in 1..MaxGridDim
    /\ tile_size \in 1..MaxGridTile
    /\ overlap_pct \in GridPcts
    /\ t2_kind = "none"
    /\ write_manifest = FALSE
    /\ has_progress = FALSE
    /\ name_pattern = PatDefault
    /\ fmt = FmtDefault
    /\ selected_bands = NoBands
    /\ call = NoCall
    /\ Defaults

PlanGrid ==
    /\ pc = "start"
    /\ step' = Step(tile_size, overlap_pct)
    /\ coords' = Coords(H, W, tile_size, step')
    /\ pc' = "planned"
    /\ UNCHANGED <<inputs, i, tiles, rows_t1, rows_t2, info_note, t2_used, im2_ref,
                   handles, dirs, files, manifest_files, calls, error,
                   result, merged>>
    /\ UNCHANGED dialog

GridNext == PlanGrid

SpecGrid == GridInit /\ [][GridNext]_vars

(***************************************************************************)
(* split_large_image: splitter.py lines 155-380.                           *)
(* Arguments kept at their defaults: t1_base, t2_base and name_pattern_t2  *)
(* = None, write_parquet = False.                                          *)
(***************************************************************************)
RunInit ==
    /\ H \in 1..MaxH
    /\ W \in 1..MaxW
    /\ tile_size \in 0..MaxTile
    /\ overlap_pct \in RunPcts
    /\ \E rc \in RunCases :
          /\ name_pattern = rc.pat
          /\ fmt = rc.fmt
          /\ t2_kind = rc.t2
          /\ write_manifest = rc.wm
          /\ has_progress = rc.prog
    /\ selected_bands = NoBands
    /\ call = NoCall
    /\ Defaults

\* the range checks of lines 186-189 pass
ArgsValid == tile_size > 0 /\ overlap_pct >= 0 /\ overlap_pct < 100

\* base1, base2 and the patterns of lines 193-195 and 250-251
Base1 == BaseIn

Base2 == Base1 \o LitT2

Pat1 == name_pattern

Pat2 == Pat1

Total == Len(coords)

\* lines 186-189: a range check fails, before anything is created or opened
StartInvalid ==
    /\ pc = "start"
    /\ ~ArgsValid
    /\ pc' = "raised"
    /\ error' = "ValueError:range"
    /\ UNCHANGED <<inputs, locals, handles, dirs, files, manifest_files, calls, result, merged>>
    /\ UNCHANGED dialog

\* lines 191-204: Image.open(input_path) fails
StartOpenFail ==
    /\ pc = "start"
    /\ ArgsValid
    /\ dirs' = {"out"}
    /\ pc' = "raised"
    /\ error' = "ValueError:open"
    /\ UNCHANGED <<inputs, locals, handles, files, manifest_files, calls, result, merged>>
    /\ UNCHANGED dialog

\* lines 191-216: os.makedirs(t1_dir) raises; no handler is in scope
StartT1DirFail ==
    /\ pc = "start"
    /\ ArgsValid
    /\ dirs' = {"out"}
    /\ handles' = [handles EXCEPT !["im1"] = "open"]
    /\ pc' = "raised"
    /\ error' = "OSError:makedirs"
    /\ UNCHANGED <<inputs, locals, files, manifest_files, calls,
                   result, merged>>
    /\ UNCHANGED dialog

\* the secondary of another size is kept and tiled
OpenSecondaryKeepMismatch(t2dir_ok) ==
    CASE t2_kind \in {"ok", "mismatch"} /\ t2dir_ok ->
            [used |-> TRUE, ref |-> TRUE, handle |-> "open", dir |-> TRUE]
      [] t2_kind \in {"ok", "mismatch"} /\ ~t2dir_ok ->
            [used |-> FALSE, ref |-> FALSE, handle |-> "open", dir |-> FALSE]
      [] OTHER ->
            [used |-> FALSE, ref |-> FALSE, handle |-> "unopened", dir |-> FALSE]

\* lines 218-233: the optional secondary raster.  t2dir_ok: os.makedirs(t2_dir)
\* succeeds.  The outcome: t2_used, im2 is not None, the state of the handle
\* Image.open(t2_path) returned, and whether T2/ was created.
OpenSecondary(t2dir_ok) ==
    CASE t2_kind = "ok" /\ t2dir_ok ->
            [used |-> TRUE, ref |-> TRUE, handle |-> "open", dir |-> TRUE]
      [] t2_kind = "ok" /\ ~t2dir_ok ->
            \* except Exception: im2 = None -- the handle is not closed
            [used |-> FALSE, ref |-> FALSE, handle |-> "open", dir |-> FALSE]
      [] t2_kind = "mismatch" ->
            [used |-> FALSE, ref |-> FALSE, handle |-> "closed", dir |-> FALSE]
      [] OTHER ->
            [used |-> FALSE, ref |-> FALSE, handle |-> "unopened", dir |-> FALSE]

\* lines 186-254: the prelude runs through and the loop is entered
StartOk ==
    /\ pc = "start"
    /\ ArgsValid
    /\ \E t2dir_ok \in BOOLEAN :
          LET o == OpenSecondary(t2dir_ok)
          IN  /\ t2_used' = o.used
              /\ im2_ref' = o.ref
              /\ handles' = [handles EXCEPT !["im1"] = "open", !["im2"] = o.handle]
              /\ dirs' = {"out", "T1"} \cup (IF o.dir THEN {"T2"} ELSE {})
    /\ step' = Step(tile_size, overlap_pct)
    /\ coords' = Coords(H, W, tile_size, step')
    /\ pc' = "poll"
    /\ UNCHANGED <<inputs, i, tiles, rows_t1, rows_t2, info_note, files,
                   manifest_files, calls, error, result, merged>>
    /\ UNCHANGED dialog

\* lines 316-325: the finally clause of the loop
CloseHandles ==
    handles' = [handles EXCEPT !["im1"] = "closed",
                               !["im2"] = IF im2_ref THEN "closed" ELSE @]

\* the T2 manifest is written from the rows of T1
WriteManifestsT2FromT1 ==
    manifest_files' =
        [d \in (IF write_manifest /\ rows_t1 # <<>> THEN {"T1"} ELSE {})
               \cup (IF write_manifest /\ t2_used /\ rows_t2 # <<>> THEN {"T2"} ELSE {})
            |-> rows_t1]

\* lines 327-366: one manifest.csv per role, when rows were accumulated
WriteManifests ==
    manifest_files' =
        [d \in (IF write_manifest /\ rows_t1 # <<>> THEN {"T1"} ELSE {})
               \cup (IF write_manifest /\ t2_used /\ rows_t2 # <<>> THEN {"T2"} ELSE {})
            |-> IF d = "T1" THEN rows_t1 ELSE rows_t2]

\* lines 368-380: the returned dictionary
BuildResult ==
    result' = [tiles |-> tiles,
               t1_dir |-> "T1",
               t2_dir |-> IF t2_used THEN "T2" ELSE "",
               t1_manifest |-> IF "T1" \in DOMAIN manifest_files' THEN "T1/manifest.csv" ELSE "",
               t2_manifest |-> IF "T2" \in DOMAIN manifest_files' THEN "T2/manifest.csv" ELSE "",
               t2_used |-> t2_used,
               note |-> info_note]

\* lines 316-380: leaving the loop normally
Return ==
    /\ CloseHandles
    /\ WriteManifests
    /\ BuildResult
    /\ pc' = "done"

\* an exception leaves the loop: the finally clause runs, nothing after it
Raise(kind) ==
    /\ CloseHandles
    /\ error' = kind
    /\ pc' = "raised"

\* the callback's return value is ignored
CancelIgnored ==
    /\ pc' = "t1"
    /\ UNCHANGED <<handles, manifest_files, result>>

\* line 258-259: progress(i, total) returned true: break
Cancel == Return

\* lines 257-259: the loop head for tile i; the callback (if any) returns false
PollContinue ==
    /\ pc = "poll"
    /\ i < Total
    /\ calls' = IF has_progress THEN Append(calls, <<i, Total, FALSE>>) ELSE calls
    /\ pc' = "t1"
    /\ UNCHANGED <<inputs, locals, handles, dirs, files, manifest_files, error, result, merged>>
    /\ UNCHANGED dialog

\* lines 257-259: the callback returns true
PollCancel ==
    /\ pc = "poll"
    /\ i < Total
    /\ has_progress
    /\ calls' = Append(calls, <<i, Total, TRUE>>)
    /\ Cancel
    /\ UNCHANGED <<inputs, locals, dirs, files, error, merged>>
    /\ UNCHANGED dialog

\* line 257: coords is exhausted
LoopEnd ==
    /\ pc = "poll"
    /\ i = Total
    /\ Return
    /\ UNCHANGED <<inputs, locals, dirs, files, calls, error, merged>>
    /\ UNCHANGED dialog

\* the box of the tile being processed
Box == coords[i + 1]

\* the tile indices are derived from the tile size instead of the step
RowByTileSize(box, path) ==
    [tile_x |-> box[2] \div tile_size, tile_y |-> box[1] \div tile_size,
     x0 |-> box[2], y0 |-> box[1],
     w |-> box[4] - box[2], h |-> box[3] - box[1], path |-> path]

\* a manifest row (lines 285-290, 310): scene_id, label_path and fold are
\* the same in every row and left out
Row(box, path) ==
    [tile_x |-> box[2] \div step, tile_y |-> box[1] \div step,
     x0 |-> box[2], y0 |-> box[1],
     w |-> box[4] - box[2], h |-> box[3] - box[1], path |-> path]

\* a tile file: the raster it was cropped from, its crop box, the number of
\* its channels (0: a 2-D array) and the source channels they hold
TileContent(src, box, c, bands) == [src |-> src, box |-> box, c |-> c, bands |-> bands]

\* lines 263-264 / 295-296: the crop of a raster of C bands and its format guard
Crop(C) == ExtractCrop(C, selected_bands)

Guard(C) == EnsureFormatCompat(ArrC(Crop(C)), fmt.ext, fmt.policy)

\* the tile of a raster of C bands is cropped, guarded and saved
TileWritable(C) == Crop(C).ok /\ Guard(C).ok /\ SaveOk(Guard(C).c, fmt.ext)

WriteFile(path, content) ==
    files' = [q \in DOMAIN files \cup {path} |-> IF q = path THEN content ELSE files[q]]

\* lines 262-290: the primary tile is cropped, guarded, named, saved and recorded
TileT1Ok ==
    /\ pc = "t1"
    /\ LET g == Guard(fmt.c1)
           path == <<"T1", RenderName(Pat1, Base1, Box[1], Box[2], i, fmt.ext)>>
       IN  /\ TileWritable(fmt.c1)
           /\ NameRenders(Pat1)
           /\ info_note' = IF info_note.kind = "none" /\ g.note # "none"
                           THEN [kind |-> g.note, y |-> Box[1], x |-> Box[2]]
                           ELSE info_note
           /\ WriteFile(path, TileContent("T1", Box, g.c, Kept(Crop(fmt.c1), g.c)))
           /\ rows_t1' = IF write_manifest THEN Append(rows_t1, Row(Box, path)) ELSE rows_t1
    /\ IF t2_used /\ im2_ref
       THEN pc' = "t2" /\ UNCHANGED <<i, tiles>>
       ELSE pc' = "poll" /\ i' = i + 1 /\ tiles' = tiles + 1
    /\ UNCHANGED <<inputs, step, coords, rows_t2, t2_used, im2_ref, handles, dirs,
                   manifest_files, calls, error, result, merged>>
    /\ UNCHANGED dialog

\* lines 262-282: a primary step fails: the crop, the band selection or the
\* format guard under a strict policy (RuntimeError; a MemoryError of the
\* crop and an error of the save take the same path), or the name
\* (KeyError).  Nothing of the tile is written.
TileT1Fail ==
    /\ pc = "t1"
    /\ LET g == Guard(fmt.c1)
       IN  \E kind \in {"RuntimeError:tile", "KeyError:name"} :
              /\ kind = "KeyError:name" => Crop(fmt.c1).ok /\ g.ok /\ ~NameRenders(Pat1)
              /\ Raise(kind)
    /\ UNCHANGED <<inputs, locals, dirs, files, manifest_files, calls,
                   result, merged>>
    /\ UNCHANGED dialog

\* the tile count goes up by the two files of the position
AfterT2CountingFiles == /\ pc' = "poll" /\ i' = i + 1 /\ tiles' = tiles + 2

\* line 315: tiles += 1, and on to the next tile
AfterT2 == /\ pc' = "poll" /\ i' = i + 1 /\ tiles' = tiles + 1

\* the secondary tile is cropped with a box shifted by one step
BoxT2Shifted == <<Box[1], Box[2] + step, Box[3], Box[4] + step>>

\* the box the secondary tile is cropped with (line 295)
BoxT2 == Box

\* lines 293-310: the secondary tile is cropped, guarded, named, saved and recorded
TileT2Ok ==
    /\ pc = "t2"
    /\ LET g == Guard(fmt.c2)
           path == <<"T2", RenderName(Pat2, Base2, Box[1], Box[2], i, fmt.ext)>>
       IN  /\ TileWritable(fmt.c2)
           /\ NameRenders(Pat2)
           /\ WriteFile(path, TileContent("T2", BoxT2, g.c, Kept(Crop(fmt.c2), g.c)))
           /\ rows_t2' = IF write_manifest THEN Append(rows_t2, Row(Box, path)) ELSE rows_t2
    /\ AfterT2
    /\ UNCHANGED <<inputs, step, coords, rows_t1, info_note, t2_used, im2_ref,
                   handles, dirs, manifest_files, calls, error, result,
                   merged>>
    /\ UNCHANGED dialog

\* the note of a secondary failure is dropped
NoteT2FailureDropped == info_note' = info_note

\* lines 311-313: the first note wins
NoteT2Failure ==
    info_note' = IF info_note.kind = "none"
                 THEN [kind |-> "t2fail", y |-> Box[1], x |-> Box[2]]
                 ELSE info_note

\* lines 293-315: a secondary step fails (the band selection, the format
\* guard under a strict policy, the crop or the save); the failure is absorbed
TileT2Fail ==
    /\ pc = "t2"
    /\ ~TileWritable(fmt.c2) \/ i <= MaxT2FailIndex
    /\ NoteT2Failure
    /\ AfterT2
    /\ UNCHANGED <<inputs, step, coords, rows_t1, rows_t2, t2_used, im2_ref,
                   handles, dirs, files, manifest_files, calls, error, result,
                   merged>>
    /\ UNCHANGED dialog

(***************************************************************************)
(* merge_tiles: merger.py lines 17-111, run on the T1 or the T2 folder     *)
(* after the split has gone through the whole grid and returned.           *)
(***************************************************************************)
\* the sequence of the elements of a set of strings, in ascending order
RECURSIVE SortNames(_)
SortNames(S) ==
    IF S = {} THEN <<>>
    ELSE LET m == CHOOSE a \in S : \A b \in S \ {a} : StrLess(a, b)
         IN  <<m>> \o SortNames(S \ {m})

\* _scan_tiles: the image files under folder d of the file system fs, sorted
\* by path (every tile file carries an accepted image extension;
\* manifest.csv does not)
ScanTiles(fs, d) == SortNames({q[2] : q \in {q \in DOMAIN fs : q[1] = d}})

TileW(content) == content.box[4] - content.box[2]

TileH(content) == content.box[3] - content.box[1]

MaxOf(S) == IF S = {} THEN 0 ELSE CHOOSE a \in S : \A b \in S : b <= a

\* int(n ** 0.5 + 0.999) for the small n of the model
CeilSqrt(n) == CHOOSE k \in 0..n : k * k >= n /\ (k = 0 \/ (k - 1) * (k - 1) < n)

\* _estimate_canvas_size (lines 44-74): the size (tw, th) of the first file
\* is used for every tile
EstimateCanvasSize(fs, d, names) ==
    LET first == fs[<<d, names[1]>>]
        tw == TileW(first)
        th == TileH(first)
        hit == {k \in 1..Len(names) : ExtractXY(names[k]).ok}
        mx == MaxOf({ExtractXY(names[k]).x + tw : k \in hit})
        my == MaxOf({ExtractXY(names[k]).y + th : k \in hit})
        cols == CeilSqrt(Len(names))
        rows == (Len(names) + cols - 1) \div cols
    IN  IF mx = 0 \/ my = 0
        THEN [W |-> cols * tw, H |-> rows * th, mode |-> ModeOf(first.c)]
        ELSE [W |-> mx, H |-> my, mode |-> ModeOf(first.c)]

\* lines 89-94
TargetMode(mode_hint) ==
    CASE mode_hint = "L" -> "L"
      [] mode_hint \in {"RGBA", "LA"} -> "RGBA"
      [] OTHER -> "RGB"

Background == [src |-> "bg", x |-> 0, y |-> 0, conv |-> FALSE]

\* the pixel of a tile file at tile-local (dx, dy): the source pixel it was
\* cropped from, and whether the mode conversion of line 102 changed it
TilePixel(content, dx, dy, target_mode) ==
    [src |-> content.src, x |-> content.box[2] + dx, y |-> content.box[1] + dy,
     conv |-> ModeOf(content.c) # target_mode]

\* canvas.paste(im, (x, y)) (line 108): the part of the tile inside the canvas
Paste(canvas, content, x, y, target_mode) ==
    [q \in DOMAIN canvas |->
        IF /\ x <= q[1] /\ q[1] < x + TileW(content)
           /\ y <= q[2] /\ q[2] < y + TileH(content)
        THEN TilePixel(content, q[1] - x, q[2] - y, target_mode)
        ELSE canvas[q]]

\* lines 99-108: the files are pasted in sorted order; unmatched names are skipped
RECURSIVE PasteAll(_, _, _, _, _, _)
PasteAll(fs, canvas, d, names, k, target_mode) ==
    IF k > Len(names) THEN canvas
    ELSE LET xy == ExtractXY(names[k])
             next == IF xy.ok
                     THEN Paste(canvas, fs[<<d, names[k]>>], xy.x, xy.y, target_mode)
                     ELSE canvas
         IN  PasteAll(fs, next, d, names, k + 1, target_mode)

\* merge_tiles(tiles_dir = d, output_path) on the file system fs
MergeTilesResult(fs, d) ==
    LET names == ScanTiles(fs, d)
    IN  IF names = <<>>
        THEN [NoMerge EXCEPT !.status = "ValueError:no tiles", !.dir = d]
        ELSE LET est == EstimateCanvasSize(fs, d, names)
                 tm == TargetMode(est.mode)
                 blank == [q \in (0..(est.W - 1)) \X (0..(est.H - 1)) |-> Background]
             IN  [status |-> "saved", dir |-> d, W |-> est.W, H |-> est.H, mode |-> tm,
                  canvas |-> PasteAll(fs, blank, d, names, 1, tm)]

MergeTiles ==
    /\ pc = "done"
    /\ i = Total
    /\ merged.status = "none"
    /\ \E d \in {"T1", "T2"} : merged' = MergeTilesResult(files, d)
    /\ UNCHANGED <<inputs, locals, pc, handles, dirs, files, manifest_files, calls, error, result>>
    /\ UNCHANGED dialog

Next ==
    \/ StartInvalid
    \/ StartOpenFail
    \/ StartT1DirFail
    \/ StartOk
    \/ PollContinue
    \/ PollCancel
    \/ LoopEnd
    \/ TileT1Ok
    \/ TileT1Fail
    \/ TileT2Ok
    \/ TileT2Fail
    \/ MergeTiles

Spec == RunInit /\ [][Next]_vars

(***************************************************************************)
(* Split runs with a band selection: split_large_image on one-row rasters  *)
(* of 1 to 4 bands (modes L, LA, RGB, RGBA), with selected_bands None or a *)
(* list of at most MaxRunBands indices.                                    *)
(***************************************************************************)
\* the indices a selection is drawn from: valid ones, the first invalid one
\* of a 4-band raster, and negative ones inside and outside Python's range
BandIndexes == {-5, -1, 0, 1, 2, 3, 4}

\* the lists of at most n indices
RECURSIVE IndexLists(_)
IndexLists(n) ==
    IF n = 0 THEN {<<>>}
    ELSE IndexLists(n - 1)
         \cup {Append(s, b) : s \in {t \in IndexLists(n - 1) : Len(t) = n - 1},
                              b \in BandIndexes}

BandsInit ==
    /\ H = 1
    /\ W \in 1..2
    /\ tile_size = 1
    /\ overlap_pct = 0
    /\ t2_kind \in {"none", "ok"}
    /\ write_manifest = TRUE
    /\ has_progress = FALSE
    /\ name_pattern = PatDefault
    /\ \E C \in 1..4, e \in {ExtPng, ExtJpg} :
          fmt = [c1 |-> C, c2 |-> C, ext |-> e, policy |-> "auto"]
    /\ selected_bands \in {NoBands} \cup {Bands(s) : s \in IndexLists(MaxRunBands)}
    /\ call = NoCall
    /\ Defaults

BandsNext ==
    \/ StartOk
    \/ PollContinue
    \/ LoopEnd
    \/ TileT1Ok
    \/ TileT1Fail
    \/ TileT2Ok
    \/ TileT2Fail

SpecBands == BandsInit /\ [][BandsNext]_vars

(***************************************************************************)
(* The format guard on its own: _ensure_format_compat (lines 82-107) on an *)
(* array of c channels (0: a 2-D array), an extension and a policy.        *)
(***************************************************************************)
Extensions == {ExtPng, ExtJpg, ExtJpeg, ExtWebp, ExtTif, ExtTiff, ExtBmp}

Policies == {"auto", "strict", "other"}

\* every argument of the run is held fixed
RunArgsFixed ==
    /\ H = 1
    /\ W = 1
    /\ tile_size = 1
    /\ overlap_pct = 0
    /\ t2_kind = "none"
    /\ write_manifest = FALSE
    /\ has_progress = FALSE
    /\ name_pattern = PatDefault
    /\ fmt = FmtDefault
    /\ selected_bands = NoBands

GuardInit ==
    /\ RunArgsFixed
    /\ \E c \in 0..MaxGuardChannels, e \in Extensions, p \in Policies :
          call = [fn |-> "_ensure_format_compat", c |-> c, ext |-> e, policy |-> p,
                  ret |-> [ok |-> FALSE, c |-> 0, note |-> "none"]]
    /\ Defaults

ApplyGuard ==
    /\ pc = "start"
    /\ call' = [call EXCEPT !.ret = EnsureFormatCompat(call.c, call.ext, call.policy)]
    /\ pc' = "returned"
    /\ UNCHANGED <<H, W, tile_size, overlap_pct, t2_kind, write_manifest,
                   has_progress, name_pattern, fmt, selected_bands, locals,
                   handles, dirs, files, manifest_files, calls, error, result,
                   merged>>
    /\ UNCHANGED dialog

GuardNext == ApplyGuard

SpecGuard == GuardInit /\ [][GuardNext]_vars

(***************************************************************************)
(* merge_tiles on its own: the folder T1 holds any choice of four tile     *)
(* files ("a_0_0.png", "a_0_1.png", "a_1_0.png" and "b_0_0.png", each of   *)
(* width and height 1 or MaxMergeTile) and possibly another image,         *)
(* "Z.png", whose name carries no position and sorts before the tiles.     *)
(* The pixels of a file are identified by the file's name.                 *)
(***************************************************************************)
\* "<base>_<y>_<x>.png"
FolderTile(base, y, x) ==
    RenderName(<<Field("base"), Lit(LitUnderscore), Field("y"), Lit(LitUnderscore),
                 Field("x")>>, base, y, x, 0, ExtPng)

FolderTiles ==
    {FolderTile(<<97>>, 0, 0), FolderTile(<<97>>, 0, 1), FolderTile(<<97>>, 1, 0),
     FolderTile(<<98>>, 0, 0)}

\* "Z.png"
StrayName == <<90>> \o ExtPng

\* an image file of size w x h and c channels named n
FolderFile(n, w, h, c) ==
    TileContent(n, <<0, 0, h, w>>, c, [k \in 1..Max(c, 1) |-> k - 1])

\* <<w, h>> of a tile file; <<0, 0>>: the file is absent
FolderShapes == ({1, MaxMergeTile} \X {1, MaxMergeTile}) \cup {<<0, 0>>}

\* the other image: absent, a 1 x 1 grey image, or a large RGBA image
StrayChoices == {<<0, 0, 0>>, <<1, 1, 0>>, <<MaxMergeTile, MaxMergeTile, 4>>}

MergeInit ==
    /\ RunArgsFixed
    /\ call = NoCall
    /\ DefaultsButFiles
    /\ \E shape \in [FolderTiles -> FolderShapes], stray \in StrayChoices :
          LET present == {n \in FolderTiles : shape[n] # <<0, 0>>}
                             \cup (IF stray[1] > 0 THEN {StrayName} ELSE {})
          IN  files = [q \in {<<"T1", n>> : n \in present} |->
                          IF q[2] = StrayName
                          THEN FolderFile(q[2], stray[1], stray[2], stray[3])
                          ELSE FolderFile(q[2], shape[q[2]][1], shape[q[2]][2], 3)]

\* the files are pasted in descending order of their paths
MergeFolderReversed ==
    LET fs == [q \in DOMAIN files |-> files[q]]
        names == ScanTiles(fs, "T1")
        rev == [k \in 1..Len(names) |-> names[Len(names) + 1 - k]]
    IN  IF names = <<>> THEN MergeTilesResult(fs, "T1")
        ELSE LET est == EstimateCanvasSize(fs, "T1", names)
                 tm == TargetMode(est.mode)
                 blank == [q \in (0..(est.W - 1)) \X (0..(est.H - 1)) |-> Background]
             IN  [status |-> "saved", dir |-> "T1", W |-> est.W, H |-> est.H, mode |-> tm,
                  canvas |-> PasteAll(fs, blank, "T1", rev, 1, tm)]

\* merge_tiles(tiles_dir = T1, output_path)
MergeFolder == MergeTilesResult(files, "T1")

CallMergeTiles ==
    /\ pc = "start"
    /\ merged' = MergeFolder
    /\ pc' = "returned"
    /\ UNCHANGED <<inputs, locals, handles, dirs, files, manifest_files, calls, error, result>>
    /\ UNCHANGED dialog

MergeNext == CallMergeTiles

SpecMerge == MergeInit /\ [][MergeNext]_vars

(***************************************************************************)
(* Properties of the grid (specification SpecGrid).                        *)
(***************************************************************************)
\* C1: for every H, W >= 1, tile_size >= 1 and overlap_pct in [0,100) the
\* boxes enumerated at lines 238-240 cover the raster with no gaps: every
\* pixel (px, py), 0 <= px < W, 0 <= py < H, lies inside at least one box.
C1_GridCoversRaster ==
    pc = "planned" =>
        \A px \in 0..(W - 1), py \in 0..(H - 1) :
            \E k \in 1..Len(coords) : InBox(px, py, coords[k])

\* an overlapping grid of several tiles per row and per column
C1_Witness ==
    /\ pc = "planned"
    /\ OverlapPx(tile_size, overlap_pct) > 0
    /\ 1 < step /\ step < tile_size
    /\ W > tile_size /\ H > tile_size
    /\ Len(coords) >= 4

\* C6: every box (y0, x0, y1, x1) of the grid satisfies 0 <= y0 < y1 <= H,
\* 0 <= x0 < x1 <= W, y1 - y0 <= tile_size and x1 - x0 <= tile_size, and the
\* step between tile origins is >= 1.
C6_BoxesWellFormed ==
    pc = "planned" =>
        /\ step >= 1
        /\ \A k \in 1..Len(coords) :
              LET b == coords[k]
              IN  /\ 0 <= b[1] /\ b[1] < b[3] /\ b[3] <= H
                  /\ 0 <= b[2] /\ b[2] < b[4] /\ b[4] <= W
                  /\ b[3] - b[1] <= tile_size
                  /\ b[4] - b[2] <= tile_size

\* a grid whose overlap swallows the whole tile and whose last tiles are clipped
C6_Witness ==
    /\ pc = "planned"
    /\ OverlapPx(tile_size, overlap_pct) >= tile_size
    /\ tile_size >= 2
    /\ \E k \in 1..Len(coords) :
          /\ coords[k][4] - coords[k][2] < tile_size
          /\ coords[k][3] - coords[k][1] < tile_size

\* the grid of the 1000 x 1000 raster with 512-pixel tiles and no overlap
Example1000 == Coords(1000, 1000, 512, Step(512, 0))

\* C7: with overlap_pct = 0 the grid is a partition: ceil(H/tile_size) x
\* ceil(W/tile_size) tiles in row-major order, no two sharing a pixel, each
\* tile_size x tile_size except in the last row / column, where the height /
\* width is what remains (H = W = 1000, tile_size = 512: 4 tiles, the corner
\* one 488 x 488).
C7_ZeroOverlapPartition ==
    /\ Len(Example1000) = 4
    /\ Example1000[4] = <<512, 512, 1000, 1000>>
    /\ (pc = "planned" /\ overlap_pct = 0) =>
          LET nr == CeilDiv(H, tile_size)
              nc == CeilDiv(W, tile_size)
          IN  /\ Len(coords) = nr * nc
              /\ \A k \in 1..Len(coords) :
                    LET r == (k - 1) \div nc
                        c == (k - 1) % nc
                        b == coords[k]
                    IN  /\ b[1] = r * tile_size
                        /\ b[2] = c * tile_size
                        /\ b[3] - b[1] = IF r < nr - 1 THEN tile_size
                                         ELSE H - (nr - 1) * tile_size
                        /\ b[4] - b[2] = IF c < nc - 1 THEN tile_size
                                         ELSE W - (nc - 1) * tile_size
              /\ \A px \in 0..(W - 1), py \in 0..(H - 1) :
                    Cardinality({k \in 1..Len(coords) : InBox(px, py, coords[k])}) = 1

\* a partition with smaller remainder tiles in the last row and column
C7_Witness ==
    /\ pc = "planned"
    /\ overlap_pct = 0
    /\ H > tile_size /\ H % tile_size # 0
    /\ W > tile_size /\ W % tile_size # 0
    /\ Len(coords) >= 4

(***************************************************************************)
(* Properties of a split run and of the folder merge (specification Spec). *)
(***************************************************************************)
\* the path of the primary / secondary tile file of grid index j
Path1(j) == <<"T1", RenderName(Pat1, Base1, coords[j + 1][1], coords[j + 1][2], j, fmt.ext)>>

Path2(j) == <<"T2", RenderName(Pat2, Base2, coords[j + 1][1], coords[j + 1][2], j, fmt.ext)>>

OnDisk(path) == path \in DOMAIN files

\* the rows of the manifest.csv of a folder, none when there is no such file
ManifestRows(d) == IF d \in DOMAIN manifest_files THEN manifest_files[d] ELSE <<>>

\* the position fields of a manifest row
Geometry(r) == <<r.tile_x, r.tile_y, r.x0, r.y0, r.w, r.h>>

\* the position fields of the tile of grid index j
TileGeometry(j) ==
    LET b == coords[j + 1]
    IN  <<b[2] \div step, b[1] \div step, b[2], b[1], b[4] - b[2], b[3] - b[1]>>

\* manifest rows m are exactly the rows of the tiles js[1], js[2], ... of folder d
RowsAre(m, d, js) ==
    /\ Len(m) = Len(js)
    /\ \A n \in 1..Len(js) :
          /\ Geometry(m[n]) = TileGeometry(js[n])
          /\ m[n].path = (IF d = "T1" THEN Path1(js[n]) ELSE Path2(js[n]))

\* the grid indices 0 .. k-1, in order
Upto(k) == [n \in 1..k |-> n - 1]

\* tile j went through the loop body and left no secondary tile: its
\* secondary step failed
SecondaryFailed(j) == t2_used /\ j < i /\ ~OnDisk(Path2(j))

\* the callback returned true at its last call
CancelRequested == calls # <<>> /\ calls[Len(calls)][3]

\* the run returned without having been cancelled
Completed == pc = "done" /\ ~CancelRequested

\* C2: round trip: splitting with overlap_pct = 0 and the default pattern and
\* merging the T1 folder returns (W, H) and reproduces every source pixel.
C2_RoundTrip ==
    (/\ Completed
     /\ overlap_pct = 0
     /\ name_pattern = PatDefault
     /\ fmt = FmtDefault
     /\ merged.dir = "T1") =>
        /\ merged.status = "saved"
        /\ merged.W = W
        /\ merged.H = H
        /\ \A px \in 0..(W - 1), py \in 0..(H - 1) :
              merged.canvas[<<px, py>>] = [src |-> "T1", x |-> px, y |-> py, conv |-> FALSE]

\* the calls made so far are progress(0, total), progress(1, total), ... with
\* total the number of tiles of the grid, and only the last may have returned true
CallsInGridOrder ==
    \A n \in 1..Len(calls) :
        /\ calls[n][1] = n - 1
        /\ calls[n][2] = CeilDiv(H, step) * CeilDiv(W, step)
        /\ n < Len(calls) => ~calls[n][3]

\* one call per tile, made before the tile is cropped or written
CalledBeforeEachTile ==
    /\ pc = "poll" => Len(calls) = i
    /\ pc \in {"t1", "t2"} => Len(calls) = i + 1 /\ ~calls[i + 1][3]
    /\ Completed => Len(calls) = Len(coords)
    /\ DOMAIN files \subseteq {Path1(j) : j \in 0..(Len(calls) - 1)}
                              \cup {Path2(j) : j \in 0..(Len(calls) - 1)}

\* what a cancellation at index k leaves behind, but for the T2 manifest
CancelLeaves(k) ==
    /\ pc = "done"
    /\ result.tiles = k
    /\ DOMAIN files \subseteq {Path1(j) : j \in 0..(k - 1)} \cup {Path2(j) : j \in 0..(k - 1)}
    /\ write_manifest => RowsAre(ManifestRows("T1"), "T1", Upto(k))

\* C3 as stated: ... and after a cancellation at index k both manifests hold
\* exactly the rows of the tiles 0..k-1.
C3_CancelKeepsAllRows ==
    (has_progress /\ pc # "start") =>
        /\ CallsInGridOrder
        /\ CalledBeforeEachTile
        /\ CancelRequested =>
              LET k == Len(calls) - 1
              IN  /\ CancelLeaves(k)
                  /\ (write_manifest /\ t2_used) =>
                        RowsAre(ManifestRows("T2"), "T2", Upto(k))

\* C3 (amended): progress(i, total) is called once per tile, in grid order,
\* before tile i is cropped or written; when it first returns true at index k
\* the call returns normally, no file of a tile of index >= k exists, the
\* tile count is k, the T1 manifest holds exactly the rows of the tiles
\* 0..k-1 and the T2 manifest exactly the rows of those of them whose
\* secondary tile was written.
C3_CancelBetweenTiles ==
    (has_progress /\ pc # "start") =>
        /\ CallsInGridOrder
        /\ CalledBeforeEachTile
        /\ CancelRequested =>
              LET k == Len(calls) - 1
              IN  /\ CancelLeaves(k)
                  /\ (write_manifest /\ t2_used) =>
                        RowsAre(ManifestRows("T2"), "T2",
                                SelectSeq(Upto(k), LAMBDA j : OnDisk(Path2(j))))

\* a dual run cancelled at its third tile, after a secondary tile failed
C3_Witness ==
    /\ pc = "done"
    /\ CancelRequested
    /\ Len(calls) = 3
    /\ write_manifest
    /\ t2_used
    /\ Len(ManifestRows("T1")) = 2
    /\ Len(ManifestRows("T2")) = 1

\* C4: every raster handle the call opened is closed when it returns or raises.
C4_HandlesClosedOnExit ==
    pc \in {"done", "raised"} => \A h \in DOMAIN handles : handles[h] # "open"

C8_KthRowsAgree ==
    (pc = "done" /\ t2_used) =>
        LET m1 == ManifestRows("T1")
            m2 == ManifestRows("T2")
        IN  \A k \in 1..Len(m2) : k <= Len(m1) /\ Geometry(m1[k]) = Geometry(m2[k])

\* C8 (amended): when the secondary raster is used, each secondary tile is
\* cropped with the box of the primary tile of the same grid index; every T2
\* manifest row carries the tile_x, tile_y, x0, y0, w and h of the T1 row of
\* the same grid index, the T2 rows keeping the order of the T1 rows; the
\* k-th rows of the two manifests agree for every k when no secondary tile
\* failed.
C8_DualTimeAlignment ==
    t2_used =>
        /\ \A j \in 0..(Len(coords) - 1) :
              OnDisk(Path2(j)) =>
                  /\ OnDisk(Path1(j))
                  /\ files[Path2(j)].src = "T2"
                  /\ files[Path1(j)].src = "T1"
                  /\ files[Path2(j)].box = files[Path1(j)].box
                  /\ files[Path2(j)].box = coords[j + 1]
        /\ pc = "done" =>
              LET m1 == ManifestRows("T1")
                  m2 == ManifestRows("T2")
                  js == SelectSeq(Upto(Len(m1)), LAMBDA j : OnDisk(Path2(j)))
              IN  /\ m2 # <<>> =>
                        /\ Len(m2) = Len(js)
                        /\ \A n \in 1..Len(m2) : Geometry(m2[n]) = Geometry(m1[js[n] + 1])
                  /\ (m2 # <<>> /\ \A j \in 0..(i - 1) : ~SecondaryFailed(j)) =>
                        /\ Len(m2) = Len(m1)
                        /\ \A k \in 1..Len(m2) : Geometry(m1[k]) = Geometry(m2[k])

\* a dual run in which a secondary tile failed and later ones were written
C8_Witness ==
    /\ pc = "done"
    /\ t2_used
    /\ Len(ManifestRows("T2")) >= 2
    /\ Len(ManifestRows("T2")) < Len(ManifestRows("T1"))
    /\ \E j \in 0..(i - 1) : OnDisk(Path2(j)) /\ TileGeometry(j)[5] < tile_size

\* C9: a secondary path that names a file no decoder opens, or a raster of
\* another size, raises nothing and is dropped: the primary tiles are written
\* as in a primary-only run (tile j of every finished index j, cropped from
\* T1 on the grid box), no T2 tile and no T2 manifest is written, and the
\* result has t2_used = false and an empty t2_dir.
C9_SecondaryDropped ==
    (t2_kind \in {"unopenable", "mismatch"} /\ pc \notin {"start", "planned"}) =>
        /\ handles["im1"] # "unopened" =>
              /\ ~t2_used
              /\ "T2" \notin dirs
              /\ error \in {"", "OSError:makedirs", "RuntimeError:tile", "KeyError:name"}
        /\ DOMAIN files = {Path1(j) : j \in 0..(i - 1)}
        /\ \A j \in 0..(i - 1) : files[Path1(j)].src = "T1" /\ files[Path1(j)].box = coords[j + 1]
        /\ tiles = i
        /\ pc \notin {"t2"}
        /\ "T2" \notin DOMAIN manifest_files
        /\ pc = "done" =>
              /\ result.t2_used = FALSE
              /\ result.t2_dir = ""
              /\ result.t2_manifest = ""
              /\ result.tiles = i
        /\ Completed => i = Len(coords)

\* a completed primary-only run of several tiles beside a mismatching secondary
C9_Witness ==
    /\ Completed
    /\ t2_kind = "mismatch"
    /\ handles["im2"] = "closed"
    /\ result.tiles >= 2
    /\ Len(ManifestRows("T1")) >= 2

\* C10 as stated: ... and the returned result carries an advisory note that
\* records the secondary failure.
C10_NoteRecordsFailure ==
    (pc = "done" /\ \E j \in 0..(i - 1) : SecondaryFailed(j)) =>
        result.note.kind = "t2fail"

\* C10 (amended): a failure of the secondary step at grid index k never
\* aborts the run: primary tile k stays on disk with its manifest row, the
\* loop goes on, the tile count includes k, and the returned result carries
\* an advisory note, which is the first note of the run: the note of the
\* first secondary failure unless a format-guard note of a primary tile was
\* recorded before it.
C10_SecondaryFailureAbsorbed ==
    (t2_used /\ \E j \in 0..(i - 1) : SecondaryFailed(j)) =>
        LET first == CHOOSE j \in 0..(i - 1) :
                        SecondaryFailed(j) /\ \A l \in 0..(j - 1) : ~SecondaryFailed(l)
            guard == IF fmt.ext = ExtJpg /\ fmt.c1 \notin {1, 3} THEN "first3" ELSE "none"
            note == IF guard # "none"
                    THEN [kind |-> guard, y |-> 0, x |-> 0]
                    ELSE [kind |-> "t2fail", y |-> coords[first + 1][1],
                          x |-> coords[first + 1][2]]
        IN  /\ \A j \in 0..(i - 1) :
                  /\ OnDisk(Path1(j))
                  /\ write_manifest =>
                        /\ Len(rows_t1) >= j + 1
                        /\ rows_t1[j + 1].path = Path1(j)
            /\ pc \in {"poll", "done"} => tiles = i
            /\ error \in {"", "RuntimeError:tile"}
            /\ info_note = note
            /\ pc = "done" =>
                  /\ result.tiles = i
                  /\ result.note = note
                  /\ write_manifest => RowsAre(ManifestRows("T1"), "T1", Upto(i))

\* a completed dual run in which a secondary tile failed, a later one was
\* written, and the note records the failure
C10_Witness ==
    /\ Completed
    /\ t2_used
    /\ result.note.kind = "t2fail"
    /\ \E j \in 0..(i - 1) : SecondaryFailed(j) /\ \E l \in (j + 1)..(i - 1) : OnDisk(Path2(l))
    /\ write_manifest
    /\ result.tiles >= 3

\* a primary-tile step failed at grid index i and the call raised
PrimaryAborted == pc = "raised" /\ error \in {"RuntimeError:tile", "KeyError:name"}

\* C11: if a primary-tile step fails at grid index k, the call raises and
\* processes no tile of index >= k, and after the abort the tile files and
\* the manifest rows of the tiles 0..k-1 completed before the failure are
\* present on disk.
C11_AbortKeepsTilesAndRows ==
    PrimaryAborted =>
        /\ tiles = i
        /\ DOMAIN files \subseteq {Path1(j) : j \in 0..(i - 1)} \cup {Path2(j) : j \in 0..(i - 1)}
        /\ \A j \in 0..(i - 1) : OnDisk(Path1(j))
        /\ write_manifest => RowsAre(ManifestRows("T1"), "T1", Upto(i))

\* the tokens of the name_pattern mini-language
PatternTokens == {"base", "y", "x", "row", "col", "i", "ext"}

\* C13: for every name_pattern built only from the tokens {base}, {y}, {x},
\* {row}, {col}, {i}, {ext} in any combination ({i} optionally with an
\* integer format spec, e.g. "{base}_{i:05d}") filename rendering succeeds
\* for every tile: {i} is the running index, {y}/{row} and {x}/{col} the
\* tile origin, {base} the role's base name, and the target extension is
\* appended when the rendered name does not end with it.
C13_TokenPatternsRender ==
    FieldsOf(name_pattern) \subseteq PatternTokens =>
        /\ error # "KeyError:name"
        /\ \A j \in 0..(i - 1) :
              LET n == Concat(name_pattern, BaseIn, coords[j + 1][1], coords[j + 1][2],
                              j, fmt.ext)
              IN  OnDisk(<<"T1", IF EndsWith(n, fmt.ext) THEN n ELSE n \o fmt.ext>>)

\* the advisory event of the secondary step of tile j, "none" when there is
\* none: the step failed, or its format guard truncated the tile
SecondaryEvent(j) ==
    IF ~t2_used THEN "none"
    ELSE IF SecondaryFailed(j) THEN "t2fail"
    ELSE Guard(fmt.c2).note

\* the note of the earliest advisory event among the tiles 0..i-1, in
\* processing order (primary before secondary within a tile)
EarliestNote ==
    LET ev == {j \in 0..(i - 1) : SecondaryEvent(j) # "none"}
    IN  IF i >= 1 /\ Guard(fmt.c1).note # "none"
        THEN [kind |-> Guard(fmt.c1).note, y |-> coords[1][1], x |-> coords[1][2]]
        ELSE IF ev # {}
        THEN LET j == CHOOSE a \in ev : \A b \in ev : a <= b
             IN  [kind |-> SecondaryEvent(j), y |-> coords[j + 1][1], x |-> coords[j + 1][2]]
        ELSE NoNote

\* C15: if any advisory event occurs during a split run (a format-guard
\* truncation note on a primary tile, one on a secondary tile, or a
\* secondary-tile failure), the result contains exactly one note and it is
\* the note of the earliest such event in processing order; if none occurs
\* the result has no note.
C15_EarliestNoteSurfaced ==
    pc = "done" => result.note = EarliestNote

\* the tile files of a folder
TilesIn(d) == {q \in DOMAIN files : q[1] = d}

\* every row of folder d names a tile file that holds the crop of the row's box
RowsNameTheirTiles(d) ==
    \A n \in 1..Len(ManifestRows(d)) :
        LET r == ManifestRows(d)[n]
        IN  /\ OnDisk(r.path)
            /\ r.path[1] = d
            /\ files[r.path].box = <<r.y0, r.x0, r.y0 + r.h, r.x0 + r.w>>

\* C16: with write_manifest true, when the call returns, the T1 manifest
\* holds exactly one row per primary tile written and the T2 manifest one
\* row per secondary tile written, in grid (row-major) order without
\* reordering or deduplication, each row's (x0, y0, w, h) is the box of the
\* tile it names, and a role's manifest path is reported empty exactly when
\* no row was accumulated for that role.
C16_ManifestsMirrorTiles ==
    (pc = "done" /\ write_manifest) =>
        /\ RowsAre(ManifestRows("T1"), "T1", Upto(i))
        /\ RowsAre(ManifestRows("T2"), "T2",
                   SelectSeq(Upto(i), LAMBDA j : OnDisk(Path2(j))))
        /\ Len(ManifestRows("T1")) = Cardinality(TilesIn("T1"))
        /\ Len(ManifestRows("T2")) = Cardinality(TilesIn("T2"))
        /\ RowsNameTheirTiles("T1")
        /\ RowsNameTheirTiles("T2")
        /\ result.t1_manifest = "" <=> rows_t1 = <<>>
        /\ result.t2_manifest = "" <=> rows_t2 = <<>>
        /\ "T1" \in DOMAIN manifest_files <=> result.t1_manifest # ""
        /\ "T2" \in DOMAIN manifest_files <=> result.t2_manifest # ""

\* a returned dual run on an overlapping grid: three primary rows, fewer
\* secondary rows, both manifest paths reported
C16_Witness ==
    /\ pc = "done"
    /\ write_manifest
    /\ step < tile_size
    /\ Len(ManifestRows("T1")) >= 3
    /\ Len(ManifestRows("T2")) \in 1..(Len(ManifestRows("T1")) - 1)
    /\ result.t1_manifest # ""
    /\ result.t2_manifest # ""

\* the rows m carry exact, in-grid and pairwise distinct tile indices
TileIndicesExact(m) ==
    /\ \A n \in 1..Len(m) :
          /\ m[n].tile_x * step = m[n].x0
          /\ m[n].tile_y * step = m[n].y0
          /\ m[n].tile_x \in 0..(CeilDiv(W, step) - 1)
          /\ m[n].tile_y \in 0..(CeilDiv(H, step) - 1)
          /\ coords[m[n].tile_y * CeilDiv(W, step) + m[n].tile_x + 1][1] = m[n].y0
          /\ coords[m[n].tile_y * CeilDiv(W, step) + m[n].tile_x + 1][2] = m[n].x0
    /\ \A n, l \in 1..Len(m) :
          (m[n].tile_x = m[l].tile_x /\ m[n].tile_y = m[l].tile_y) => n = l

\* C17: in every manifest row tile_x = x0 div step and tile_y = y0 div step
\* with no remainder, so (tile_y, tile_x) is the tile's zero-based (row,
\* column) index in the grid, and no two rows of the same manifest share
\* the same (tile_x, tile_y).
C17_TileIndicesAreGridIndices ==
    /\ TileIndicesExact(rows_t1)
    /\ TileIndicesExact(rows_t2)
    /\ TileIndicesExact(ManifestRows("T1"))
    /\ TileIndicesExact(ManifestRows("T2"))

\* the manifests of a completed dual run on an overlapping 3 x 2 grid
C17_Witness ==
    /\ Completed
    /\ step < tile_size
    /\ Len(ManifestRows("T1")) = 6
    /\ Len(ManifestRows("T2")) >= 4
    /\ \E n \in 1..6 : ManifestRows("T1")[n].tile_x = 2 /\ ManifestRows("T1")[n].tile_y = 1

(***************************************************************************)
(* Properties of split runs with a band selection (specification           *)
(* SpecBands).                                                             *)
(***************************************************************************)
\* selected_bands holds an index outside 0 <= b < channel_count
BandOutOfRange ==
    /\ selected_bands.given
    /\ \E k \in 1..Len(selected_bands.idx) :
          selected_bands.idx[k] < 0 \/ selected_bands.idx[k] >= fmt.c1

\* C12: when selected_bands contains an index b outside 0 <= b <
\* channel_count, the call fails with a band-index error and writes no tile.
C12_BadBandIndexRejected ==
    BandOutOfRange =>
        /\ DOMAIN files = {}
        /\ pc # "done"

(***************************************************************************)
(* Properties of the format guard (specification SpecGuard).               *)
(***************************************************************************)
\* C14: for a .jpg/.jpeg/.webp target, every 3-D buffer whose channel count
\* C is not in {1,3} is, under policy "auto", returned with a channel count
\* in {1,3} (its first 3 channels) together with an advisory note, and makes
\* any other policy raise; a buffer with C in {1,3}, or a 2-D buffer, is
\* returned unchanged with no note.
C14_JpegGuardYieldsOneOrThree ==
    (pc = "returned" /\ call.ext \in {ExtJpg, ExtJpeg, ExtWebp}) =>
        IF call.c \notin {0, 1, 3}
        THEN IF call.policy = "auto"
             THEN /\ call.ret.ok
                  /\ call.ret.c \in {1, 3}
                  /\ call.ret.note = "first3"
             ELSE ~call.ret.ok
        ELSE call.ret = [ok |-> TRUE, c |-> call.c, note |-> "none"]

(***************************************************************************)
(* Properties of the folder merge (specification SpecMerge).               *)
(***************************************************************************)
\* the files of the folder whose name ends in _<y>_<x>.<ext>
Matched == {q \in DOMAIN files : ExtractXY(q[2]).ok}

\* the folder without its other files
MatchedOnly == [q \in Matched |-> files[q]]

\* C18: folder merge is determined by the matching files only: an image file
\* whose name does not end in _<y>_<x>.<ext> is skipped, never makes the
\* merge fail and never changes the canvas size, mode or pixels; when no
\* file of the folder matches (even if other image files are present) the
\* merge fails with a no-tiles error and writes no output file.
C18_OnlyMatchingFilesCount ==
    pc = "returned" =>
        IF Matched = {}
        THEN merged.status = "ValueError:no tiles"
        ELSE merged = MergeTilesResult(MatchedOnly, "T1")

\* C19: the canvas size computed by folder merge is (max over matched files
\* of x + that file's own width, max over matched files of y + that file's
\* own height), also when the tiles differ in size.
C19_CanvasFromOwnSizes ==
    (pc = "returned" /\ Matched # {}) =>
        /\ merged.status = "saved"
        /\ merged.W = MaxOf({ExtractXY(q[2]).x + TileW(files[q]) : q \in Matched})
        /\ merged.H = MaxOf({ExtractXY(q[2]).y + TileH(files[q]) : q \in Matched})

\* the matched files that cover canvas pixel q, each at its own size
Covering(q) ==
    {f \in Matched :
        LET xy == ExtractXY(f[2])
        IN  /\ xy.x <= q[1] /\ q[1] < xy.x + TileW(files[f])
            /\ xy.y <= q[2] /\ q[2] < xy.y + TileH(files[f])}

\* C20: folder merge resolves overlaps by last-write-wins in sorted
\* (lexicographic) path order: every canvas pixel covered by at least one
\* matched tile equals the value the last covering tile in sorted order
\* holds at that position (converted to the canvas mode), and every pixel
\* covered by no tile holds the background value 0.
C20_LastWriteWins ==
    (pc = "returned" /\ merged.status = "saved") =>
        \A q \in DOMAIN merged.canvas :
            IF Covering(q) = {}
            THEN merged.canvas[q] = Background
            ELSE LET last == CHOOSE f \in Covering(q) :
                                \A g \in Covering(q) \ {f} : StrLess(g[2], f[2])
                     xy == ExtractXY(last[2])
                 IN  merged.canvas[q] =
                         TilePixel(files[last], q[1] - xy.x, q[2] - xy.y, merged.mode)

\* a merged canvas with a pixel that two tiles cover and a pixel that none covers
C20_Witness ==
    /\ pc = "returned"
    /\ merged.status = "saved"
    /\ \E q \in DOMAIN merged.canvas : Cardinality(Covering(q)) >= 2
    /\ \E q \in DOMAIN merged.canvas : Covering(q) = {}
    /\ Cardinality(Matched) >= 3

(***************************************************************************)
(* merge_tiles_from_manifest on its own (merger.py lines 121-226): a       *)
(* manifest of up to MaxManifestRows rows, a column argument and a fold    *)
(* filter.  Folder T1 holds "a.png" (MaxMergeTile x 1, RGB) and "b.png"    *)
(* (1 x 1, grey); "m.png" does not exist.  A path is a key of files, the   *)
(* empty path is <<>>.                                                     *)
(***************************************************************************)
\* line 121
REQUIRED_COLS == {"x0", "y0", "w", "h", "t1_path"}

\* the header rows split_large_image writes (splitter.py lines 336 and 355)
HeaderT1 ==
    {"scene_id", "tile_x", "tile_y", "x0", "y0", "w", "h", "t1_path", "label_path", "fold"}

HeaderT2 ==
    {"scene_id", "tile_x", "tile_y", "x0", "y0", "w", "h", "t2_path", "label_path", "fold"}

\* other headers: a generic path column, no x0 column, no path column
HeaderPath == {"x0", "y0", "w", "h", "path", "fold"}

\* the required columns only: no fold column
HeaderMinimal == {"x0", "y0", "w", "h", "t1_path"}

HeaderNoX0 == HeaderT1 \ {"x0"}

HeaderNoPath == {"x0", "y0", "w", "h", "fold"}

Headers == {HeaderT1, HeaderT2, HeaderPath, HeaderMinimal, HeaderNoX0, HeaderNoPath}

\* the column names the documentation accepts (help_text.py line 74)
PathColumns == {"t1_path", "t2_path", "path"}

\* "a.png", "b.png", "m.png"
FileA == <<"T1", <<97>> \o ExtPng>>

FileB == <<"T1", <<98>> \o ExtPng>>

FileMissing == <<"T1", <<109>> \o ExtPng>>

NoPath == <<>>

\* fold values "a", "A", "b" and the filter "c"
FoldLowerA == <<97>>

FoldUpperA == <<65>>

FoldB == <<98>>

FoldC == <<99>>

\* str.lower() on ASCII letters
Lower(s) == [k \in 1..Len(s) |-> IF 65 <= s[k] /\ s[k] <= 90 THEN s[k] + 32 ELSE s[k]]

\* a data row: its geometry cells (numeric: all four parse as numbers), the
\* cell of its path column and the cell of its fold column
ManifestRow(x0, y0, w, h, numeric, path, fold) ==
    [x0 |-> x0, y0 |-> y0, w |-> w, h |-> h, numeric |-> numeric,
     path |-> path, fold |-> fold]

RowChoices ==
    {ManifestRow(0, 0, MaxMergeTile, 1, TRUE, FileA, FoldLowerA),
     ManifestRow(1, 0, MaxMergeTile, 1, TRUE, FileB, FoldUpperA),
     ManifestRow(0, 0, 1, 1, TRUE, FileA, FoldB),
     ManifestRow(0, 1, MaxMergeTile, 1, TRUE, FileA, FoldUpperA),
     ManifestRow(1, 0, MaxMergeTile, 1, TRUE, FileMissing, FoldLowerA),
     ManifestRow(0, 0, 1, 1, TRUE, NoPath, FoldLowerA),
     ManifestRow(0, 0, 1, 1, FALSE, FileA, FoldLowerA)}

FoldFilters == {<<>>, FoldLowerA, FoldUpperA, FoldC}

RowLists == UNION {[1..n -> RowChoices] : n \in 0..MaxManifestRows}

ManifestInit ==
    /\ RunArgsFixed
    /\ \E hd \in Headers, rs \in RowLists, col \in PathColumns, ff \in FoldFilters :
          call = [fn |-> "merge_tiles_from_manifest", header |-> hd, rows |-> rs,
                  column |-> col, fold_filter |-> ff]
    /\ DefaultsButFiles
    /\ files = [q \in {FileA, FileB} |->
                   IF q = FileA THEN FolderFile(q[2], MaxMergeTile, 1, 3)
                   ELSE FolderFile(q[2], 1, 1, 0)]

\* r.get("fold", "") (line 168) and (r.get(column) or "").strip() (line 190)
FoldOf(header, r) == IF "fold" \in header THEN r.fold ELSE <<>>

PathOf(header, r, column) == IF column \in header THEN r.path ELSE NoPath

\* the fold is compared without lower()
FoldRowsCaseSensitive(header, rows, fold_filter) ==
    IF fold_filter = <<>> THEN rows
    ELSE SelectSeq(rows, LAMBDA r : FoldOf(header, r) = fold_filter)

\* lines 166-172: the rows of the fold, in manifest order
FoldRows(header, rows, fold_filter) ==
    IF fold_filter = <<>> THEN rows
    ELSE SelectSeq(rows, LAMBDA r : Lower(FoldOf(header, r)) = Lower(fold_filter))

\* lines 190-193: the first non-empty path of the rows, NoPath if none
FirstImgPath(header, rows, column) ==
    LET named == {k \in 1..Len(rows) : PathOf(header, rows[k], column) # NoPath}
    IN  IF named = {} THEN NoPath
        ELSE PathOf(header, rows[CHOOSE k \in named : \A j \in named : k <= j], column)

\* the pixel a row pastes at tile-local (dx, dy): the file's pixel, or a
\* pixel of the file resized to (w, h) (line 219)
BlankPixel == [src |-> <<>>, x |-> 0, y |-> 0, conv |-> FALSE, resized |-> FALSE]

RowPixel(content, r, dx, dy, target_mode) ==
    [src |-> content.src, x |-> dx, y |-> dy,
     conv |-> ModeOf(content.c) # target_mode,
     resized |-> <<r.w, r.h>> # <<TileW(content), TileH(content)>>]

\* a row is pasted only where nothing was pasted before
PasteRowUnder(fs, canvas, r, path, target_mode) ==
    IF path = NoPath \/ path \notin DOMAIN fs \/ ~r.numeric THEN canvas
    ELSE [q \in DOMAIN canvas |->
            IF /\ r.x0 <= q[1] /\ q[1] < r.x0 + r.w
               /\ r.y0 <= q[2] /\ q[2] < r.y0 + r.h
               /\ canvas[q] = BlankPixel
            THEN RowPixel(fs[path], r, q[1] - r.x0, q[2] - r.y0, target_mode)
            ELSE canvas[q]]

\* lines 202-221: a row is skipped (204-205, 211-212) or its tile, resized to
\* (w, h), is pasted at (x0, y0)
PasteRow(fs, canvas, r, path, target_mode) ==
    IF path = NoPath \/ path \notin DOMAIN fs \/ ~r.numeric THEN canvas
    ELSE [q \in DOMAIN canvas |->
            IF /\ r.x0 <= q[1] /\ q[1] < r.x0 + r.w
               /\ r.y0 <= q[2] /\ q[2] < r.y0 + r.h
            THEN RowPixel(fs[path], r, q[1] - r.x0, q[2] - r.y0, target_mode)
            ELSE canvas[q]]

RECURSIVE PasteRows(_, _, _, _, _, _, _)
PasteRows(fs, canvas, header, rows, column, k, target_mode) ==
    IF k > Len(rows) THEN canvas
    ELSE PasteRows(fs, PasteRow(fs, canvas, rows[k], PathOf(header, rows[k], column),
                                target_mode),
                   header, rows, column, k + 1, target_mode)

\* lines 176-188: (max_x2, max_y2) over the rows
CanvasSize(rows) ==
    <<MaxOf({rows[k].x0 + rows[k].w : k \in 1..Len(rows)} \cup {0}),
      MaxOf({rows[k].y0 + rows[k].h : k \in 1..Len(rows)} \cup {0})>>

\* a canvas of size (w, h) filled with the background value
BlankCanvas(w, h) == [q \in (0..(w - 1)) \X (0..(h - 1)) |-> BlankPixel]

ManifestFailure(kind) == [NoMerge EXCEPT !.status = kind]

\* merge_tiles_from_manifest(manifest_csv, output_path, fold_filter, column)
\* on the file system fs, with the default background
MergeManifestResult(fs, header, rows, column, fold_filter) ==
    LET sel == FoldRows(header, rows, fold_filter)
        first == FirstImgPath(header, sel, column)
        max_x2 == CanvasSize(sel)[1]
        max_y2 == CanvasSize(sel)[2]
    IN  CASE ~(REQUIRED_COLS \subseteq header) ->
                ManifestFailure("ValueError:missing required columns")
          [] OTHER ->
        CASE rows = <<>> -> ManifestFailure("ValueError:manifest is empty")
          [] OTHER ->
        CASE sel = <<>> -> ManifestFailure("ValueError:no rows for fold")
          [] OTHER ->
        CASE \E k \in 1..Len(sel) : ~sel[k].numeric ->
                ManifestFailure("ValueError:not numeric")
          [] OTHER ->
        CASE first = NoPath -> ManifestFailure("ValueError:no valid image paths")
          [] OTHER ->
        CASE first \notin DOMAIN fs -> ManifestFailure("FileNotFoundError")
          [] OTHER ->
            LET tm == TargetMode(ModeOf(fs[first].c))
                blank == BlankCanvas(max_x2, max_y2)
            IN  [status |-> "saved", dir |-> "", W |-> max_x2, H |-> max_y2,
                 mode |-> tm,
                 canvas |-> PasteRows(fs, blank, header, sel, column, 1, tm)]

CallMergeManifest ==
    /\ pc = "start"
    /\ merged' = MergeManifestResult(files, call.header, call.rows, call.column,
                                     call.fold_filter)
    /\ pc' = "returned"
    /\ UNCHANGED <<inputs, locals, handles, dirs, files, manifest_files, calls, error, result>>
    /\ UNCHANGED dialog

ManifestNext == CallMergeManifest

SpecManifest == ManifestInit /\ [][ManifestNext]_vars

(***************************************************************************)
(* Properties of the manifest merge (specification SpecManifest).          *)
(***************************************************************************)
\* the manifest has the geometry columns and the column named by the call
HasNamedColumns == {"x0", "y0", "w", "h", call.column} \subseteq call.header

\* the rows of the call's fold, and those of them the paste loop can paste
Selected == FoldRows(call.header, call.rows, call.fold_filter)

Pastable(r) ==
    /\ r.numeric
    /\ PathOf(call.header, r, call.column) \in DOMAIN files

\* C21: merge_tiles_from_manifest accepts any manifest that has the columns
\* x0, y0, w, h and the path column named by its column argument, and
\* rejects with a schema error, before creating any output, exactly the
\* manifests that lack one of those; the T2 manifest written by
\* split_large_image (path column t2_path) merges with column = 't2_path'.
C21_SchemaNamesPathColumn ==
    pc = "returned" =>
        /\ merged.status = "ValueError:missing required columns" <=> ~HasNamedColumns
        /\ ( /\ call.header = HeaderT2
             /\ call.column = "t2_path"
             /\ call.fold_filter = <<>>
             /\ call.rows # <<>>
             /\ \A k \in 1..Len(call.rows) : Pastable(call.rows[k]) )
           => merged.status = "saved"

\* C22: a row whose path is unresolvable (empty, or naming a file that does
\* not exist, also when it is the first row) or whose x0/y0/w/h is not
\* numeric is skipped: it contributes no pixels, it never makes the merge
\* fail, and all other rows are still pasted.
C22_BadRowsSkipped ==
    ( /\ pc = "returned"
      /\ HasNamedColumns
      /\ REQUIRED_COLS \subseteq call.header
      /\ \E k \in 1..Len(Selected) : Pastable(Selected[k]) )
    => /\ merged.status = "saved"
       /\ merged.canvas =
             PasteRows(files, BlankCanvas(merged.W, merged.H), call.header,
                       SelectSeq(Selected, Pastable), call.column, 1, merged.mode)

\* the pasted rows that cover canvas pixel q
CoveringRows(q) ==
    {k \in 1..Len(Selected) :
        /\ Pastable(Selected[k])
        /\ Selected[k].x0 <= q[1] /\ q[1] < Selected[k].x0 + Selected[k].w
        /\ Selected[k].y0 <= q[2] /\ q[2] < Selected[k].y0 + Selected[k].h}

\* the rows (x0=0,y0=0,w=256,h=256) and (x0=128,y0=0,w=256,h=256), each naming
\* a file of its own, and the canvas they give at the columns where the
\* covering rows change, on the top line
ExampleRows ==
    <<ManifestRow(0, 0, 256, 256, TRUE, FileA, FoldLowerA),
      ManifestRow(128, 0, 256, 256, TRUE, FileB, FoldLowerA)>>

ExampleColumns == {0, 127, 128, 255, 256, 383}

ExampleTopLine ==
    PasteRows([q \in {FileA, FileB} |-> FolderFile(q[2], 256, 256, 3)],
              [q \in ExampleColumns \X {0} |-> BlankPixel],
              HeaderT1, ExampleRows, "t1_path", 1, "RGB")

\* C23: manifest merge sizes the canvas as (max of x0+w, max of y0+h) over
\* the selected rows and pastes rows in manifest row order without
\* re-sorting, each tile resized to its declared (w, h), so every covered
\* pixel holds the value of the last pasted row covering it; the two rows of
\* the example give a canvas of width 384 whose columns [128,256) come from
\* the second row (checked at the columns 127, 128, 255 and 256).
C23_RowOrderLastWriteWins ==
    /\ CanvasSize(ExampleRows) = <<384, 256>>
    /\ \A x \in ExampleColumns :
          ExampleTopLine[<<x, 0>>].src = (IF x < 128 THEN FileA[2] ELSE FileB[2])
    /\ (pc = "returned" /\ merged.status = "saved") =>
          /\ merged.W = MaxOf({Selected[k].x0 + Selected[k].w : k \in 1..Len(Selected)})
          /\ merged.H = MaxOf({Selected[k].y0 + Selected[k].h : k \in 1..Len(Selected)})
          /\ DOMAIN merged.canvas = (0..(merged.W - 1)) \X (0..(merged.H - 1))
          /\ \A q \in DOMAIN merged.canvas :
                IF CoveringRows(q) = {} THEN merged.canvas[q] = BlankPixel
                ELSE LET k == MaxOf(CoveringRows(q))
                         r == Selected[k]
                     IN  merged.canvas[q] =
                            RowPixel(files[PathOf(call.header, r, call.column)], r,
                                     q[1] - r.x0, q[2] - r.y0, merged.mode)

\* a saved canvas with a pixel that two pasted rows of different files cover,
\* the later one resized
C23_Witness ==
    /\ pc = "returned"
    /\ merged.status = "saved"
    /\ \E q \in DOMAIN merged.canvas :
          /\ Cardinality(CoveringRows(q)) >= 2
          /\ merged.canvas[q].src = FileB[2]
          /\ merged.canvas[q].resized
          /\ Selected[1].path = FileA

\* s and t are equal up to the case of their letters
SameIgnoringCase(s, t) ==
    /\ Len(s) = Len(t)
    /\ \A k \in 1..Len(s) :
          \/ s[k] = t[k]
          \/ /\ s[k] \in 65..90 /\ t[k] = s[k] + 32
          \/ /\ t[k] \in 65..90 /\ s[k] = t[k] + 32

\* the indices of the rows whose fold value is the filter up to case
FoldMatching ==
    {k \in 1..Len(call.rows) :
        SameIgnoringCase(FoldOf(call.header, call.rows[k]), call.fold_filter)}

\* the rows of a set of indices, in manifest order
RECURSIVE RowsAt(_, _)
RowsAt(K, k) ==
    IF k > Len(call.rows) THEN <<>>
    ELSE (IF k \in K THEN <<call.rows[k]>> ELSE <<>>) \o RowsAt(K, k + 1)

\* C24: with a fold_filter, manifest merge uses exactly the rows whose fold
\* value equals the filter ignoring letter case, keeping their relative
\* order; if no row matches it fails with an empty-selection error and
\* writes no output file; with no filter all rows are used.
C24_FoldFilter ==
    (pc = "returned" /\ REQUIRED_COLS \subseteq call.header /\ call.rows # <<>>) =>
        IF call.fold_filter = <<>>
        THEN Selected = call.rows
        ELSE IF FoldMatching = {}
        THEN merged.status = "ValueError:no rows for fold"
        ELSE merged = MergeManifestResult(files, call.header, RowsAt(FoldMatching, 1),
                                          call.column, <<>>)

\* a saved merge of a manifest whose filter differs in case from the fold of
\* a row it keeps and drops another row
C24_Witness ==
    /\ pc = "returned"
    /\ merged.status = "saved"
    /\ call.fold_filter # <<>>
    /\ \E k \in FoldMatching : FoldOf(call.header, call.rows[k]) # call.fold_filter
    /\ FoldMatching # 1..Len(call.rows)

(***************************************************************************)
(* Further properties of the split run (specification Spec).               *)
(***************************************************************************)
\* the call has created no directory, opened no raster and written no file
NothingTouched ==
    /\ dirs = {}
    /\ \A h \in DOMAIN handles : handles[h] = "unopened"
    /\ DOMAIN files = {}
    /\ DOMAIN manifest_files = {}

\* C25: every failure of split_large_image that is determined by the call's
\* arguments alone (tile_size <= 0, overlap_pct outside [0,100), or a
\* name_pattern containing a token outside {base},{y},{x},{row},{col},{i},
\* {ext}) is raised before the call creates any directory, opens any raster
\* or writes any file.
C25_ArgumentErrorsBeforeIO ==
    ( /\ pc = "raised"
      /\ \/ error = "ValueError:range"
         \/ error = "KeyError:name" /\ ~(FieldsOf(name_pattern) \subseteq PatternTokens) )
    => NothingTouched

(***************************************************************************)
(* The crop helper on its own: _extract_crop_as_uint8 (splitter.py lines   *)
(* 122-151) on a crop of an 8-bit raster of C bands and a selected_bands   *)
(* argument.                                                               *)
(***************************************************************************)
CropInit ==
    /\ RunArgsFixed
    /\ \E C \in 1..MaxCropChannels,
          sel \in {NoBands} \cup {Bands(s) : s \in IndexLists(MaxCropChannels)} :
          call = [fn |-> "_extract_crop_as_uint8", C |-> C, sel |-> sel,
                  ret |-> [ok |-> FALSE, ndim |-> 0, bands |-> <<>>]]
    /\ Defaults

ApplyCrop ==
    /\ pc = "start"
    /\ call' = [call EXCEPT !.ret = ExtractCrop(call.C, call.sel)]
    /\ pc' = "returned"
    /\ UNCHANGED <<H, W, tile_size, overlap_pct, t2_kind, write_manifest,
                   has_progress, name_pattern, fmt, selected_bands, locals,
                   handles, dirs, files, manifest_files, calls, error, result,
                   merged>>
    /\ UNCHANGED dialog

CropNext == ApplyCrop

SpecCrop == CropInit /\ [][CropNext]_vars

(***************************************************************************)
(* Properties of the crop helper (specification SpecCrop).                 *)
(***************************************************************************)
\* the call selects distinct bands of the crop, each by its index in 0..C-1
DistinctValidSelection ==
    /\ call.sel.given
    /\ Len(call.sel.idx) \in 1..call.C
    /\ \A k \in 1..Len(call.sel.idx) : call.sel.idx[k] \in 0..(call.C - 1)
    /\ \A j, k \in 1..Len(call.sel.idx) : j # k => call.sel.idx[j] # call.sel.idx[k]

\* C26: band selection is applied exactly once and preserves the requested
\* order: for every list selected_bands = [b0, ..., bn-1] of distinct valid
\* indices on a C-channel crop (n from 1 to C, permutations included) the
\* array returned by _extract_crop_as_uint8 has exactly n channels and its
\* channel k is source channel b_k.
C26_SelectionAppliedOnce ==
    (pc = "returned" /\ DistinctValidSelection) =>
        /\ call.ret.ok
        /\ call.ret.bands = call.sel.idx

(***************************************************************************)
(* The normalisation on its own: _normalize_to_uint8 (splitter.py lines    *)
(* 53-79) on an array given as the sequence of its channels, each the      *)
(* sequence of its samples (one channel: a 2-D array).  On the samples of  *)
(* the model the float32 arithmetic of lines 64 and 75 is exact up to the  *)
(* integer part, so the cast of lines 67 and 78 is the integer quotient.   *)
(***************************************************************************)
\* the samples of an array that is not 8-bit, and of one that is
Samples == {-1, 0, 1, 4, 300}

SamplesUint8 == {0, 7, 255}

Modes == {"minmax", "clip", "other"}

MinOf(S) == CHOOSE a \in S : \A b \in S : a <= b

\* lines 61-67 / 72-78: one channel
NormalizeChannel(a, mode) ==
    LET vals == {a[k] : k \in 1..Len(a)}
        mn == MinOf(vals)
        mx == MaxOf(vals)
    IN  IF mode = "clip"
        THEN [k \in 1..Len(a) |-> Max(0, Min(a[k], 255))]
        ELSE IF mx > mn
             THEN [k \in 1..Len(a) |-> ((a[k] - mn) * 255) \div (mx - mn)]
             ELSE [k \in 1..Len(a) |-> 0]

\* _normalize_to_uint8(arr, mode)
NormalizeToUint8(arr, dtype, mode) ==
    IF dtype = "uint8" THEN arr
    ELSE LET m == IF mode \in {"minmax", "clip"} THEN mode ELSE "minmax"
         IN  [c \in 1..Len(arr) |-> NormalizeChannel(arr[c], m)]

NormInit ==
    /\ RunArgsFixed
    /\ \E C \in 1..MaxNormChannels, dtype \in {"uint8", "int32"}, mode \in Modes :
          \E arr \in [1..C -> [1..MaxNormSamples ->
                                  IF dtype = "uint8" THEN SamplesUint8 ELSE Samples]] :
             /\ dtype = "uint8" => C = 1 /\ mode = "minmax"
             /\ call = [fn |-> "_normalize_to_uint8", arr |-> arr, dtype |-> dtype,
                        mode |-> mode, ret |-> <<>>]
    /\ Defaults

ApplyNormalize ==
    /\ pc = "start"
    /\ call' = [call EXCEPT !.ret = NormalizeToUint8(call.arr, call.dtype, call.mode)]
    /\ pc' = "returned"
    /\ UNCHANGED <<H, W, tile_size, overlap_pct, t2_kind, write_manifest,
                   has_progress, name_pattern, fmt, selected_bands, locals,
                   handles, dirs, files, manifest_files, calls, error, result,
                   merged>>
    /\ UNCHANGED dialog

NormNext == ApplyNormalize

SpecNorm == NormInit /\ [][NormNext]_vars

(***************************************************************************)
(* Properties of the normalisation (specification SpecNorm).               *)
(***************************************************************************)
\* v is an integer nearest to n / d (d > 0)
IsNearest(v, n, d) == 2 * v * d - 2 * n <= d /\ 2 * n - 2 * v * d <= d

\* C27: for a non-8-bit crop with integer samples and normalize_mode
\* 'minmax', each output sample equals round((value - min_c) * 255 /
\* (max_c - min_c)), rounded to nearest and not truncated, with min_c and
\* max_c taken over the sample's own channel only; a channel with max_c =
\* min_c becomes all zero; with mode 'clip' each output is the value clamped
\* to [0, 255] with no rescaling.
C27_MinmaxRoundsPerChannel ==
    (pc = "returned" /\ call.dtype # "uint8" /\ call.mode \in {"minmax", "clip"}) =>
        \A c \in 1..Len(call.arr) : \A k \in 1..Len(call.arr[c]) :
            LET vals == {call.arr[c][j] : j \in 1..Len(call.arr[c])}
                mn == MinOf(vals)
                mx == MaxOf(vals)
                v == call.arr[c][k]
            IN  IF call.mode = "clip"
                THEN call.ret[c][k] = (IF v < 0 THEN 0 ELSE IF v > 255 THEN 255 ELSE v)
                ELSE IF mx = mn THEN call.ret[c][k] = 0
                ELSE IsNearest(call.ret[c][k], (v - mn) * 255, mx - mn)

(***************************************************************************)
(* Properties of the split run and of the grid that concern the front end  *)
(* (specifications Spec and SpecGrid).                                     *)
(***************************************************************************)
\* the grid indices whose primary / secondary tile is on disk
PrimaryWritten == {j \in 0..(Len(coords) - 1) : OnDisk(Path1(j))}

SecondaryWritten == {j \in 0..(Len(coords) - 1) : OnDisk(Path2(j))}

\* the positions recorded by a sequence of manifest rows
RowPositions(m) == {Geometry(m[n]) : n \in 1..Len(m)}

GuiTotalFloor(h, w, ts, pct) ==
    LET overlap_px == RoundHalfEven(ts * pct, 100)
        st == IF overlap_px <= 0 THEN ts ELSE Max(1, ts - overlap_px)
    IN  (h \div st) * (w \div st)

\* the total the front end computes for its progress bar (gui.py lines
\* 743-746) from the raster's size, the tile size and the overlap
GuiTotal(h, w, ts, pct) ==
    LET overlap_px == RoundHalfEven(ts * pct, 100)
        st == IF overlap_px <= 0 THEN ts ELSE Max(1, ts - overlap_px)
    IN  CeilDiv(h, st) * CeilDiv(w, st)

\* C29: the tile total the front end precomputes for its progress bar,
\* ceil(H/step) x ceil(W/step) with step derived from tile size and overlap
\* as in the splitter, equals the number of tiles split_large_image
\* enumerates (the total it passes to the progress callback) for every H,
\* W >= 1, tile_size >= 1 and overlap_pct in [0,100).
C29_GuiTotalIsGridSize ==
    pc = "planned" => GuiTotal(H, W, tile_size, overlap_pct) = Len(coords)

\* a grid of at least six tiles with overlap, neither H nor W a multiple of
\* the step
C29_Witness ==
    /\ pc = "planned"
    /\ overlap_pct > 0
    /\ step < tile_size
    /\ H % step # 0
    /\ W % step # 0
    /\ Len(coords) >= 6

(***************************************************************************)
(* The merge workers of the front end: _do_merge_worker (gui.py lines      *)
(* 832-886) and _merge_from_manifest_worker (892-1005) from the creation   *)
(* of the canvas and the progress dialog on, running in a background       *)
(* thread next to the Tk main loop, which runs the Cancel button's command *)
(* and the callbacks scheduled with after().  The worker goes through n    *)
(* tiles; those of skip are not pasted (a file name without position, a    *)
(* row without a file); Image.open raises on tile bad (-1: on none).       *)
(***************************************************************************)
Workers == {"_do_merge_worker", "_merge_from_manifest_worker"}

WorkerInit ==
    /\ RunArgsFixed
    /\ \E w \in Workers, n \in 1..MaxWorkerTiles :
          \E sk \in SUBSET (0..(n - 1)), b \in -1..(n - 1) :
             call = [fn |-> w, n |-> n, skip |-> sk, bad |-> b]
    /\ Defaults

\* lines 847-852 / 958-963: the canvas and the dialog are created
WorkerStart ==
    /\ pc = "start"
    /\ pd' = [NoDialog EXCEPT !.shown = TRUE]
    /\ merged' = [NoMerge EXCEPT !.status = "canvas"]
    /\ pc' = "poll"
    /\ UNCHANGED <<inputs, locals, handles, dirs, files, manifest_files, calls, error,
                   result, clicked_at>>

\* lines 857-859 / 966-968: the head of the loop reads the flag
WorkerPollFlag ==
    /\ pc = "poll"
    /\ i < call.n
    /\ pc' = IF pd.cancelled THEN "close" ELSE "tile"
    /\ UNCHANGED <<inputs, locals, handles, dirs, files, manifest_files, calls, error,
                   result, merged, dialog>>

\* the loop has gone through every tile
WorkerLoopEnd ==
    /\ pc = "poll"
    /\ i = call.n
    /\ pc' = "close"
    /\ UNCHANGED <<inputs, locals, handles, dirs, files, manifest_files, calls, error,
                   result, merged, dialog>>

\* the worker opens tile k: the folder worker opens every file (line 860),
\* the manifest worker only the files of the rows it pastes (970-982)
Opens(k) == call.fn = "_do_merge_worker" \/ k \notin call.skip

\* lines 883-886 / 1002-1005: Image.open raised
WorkerOpenFail ==
    /\ pc = "tile"
    /\ i = call.bad
    /\ Opens(i)
    /\ pd' = [pd EXCEPT !.closing = TRUE]
    /\ error' = "Merge failed"
    /\ pc' = "failed"
    /\ UNCHANGED <<inputs, locals, handles, dirs, files, manifest_files, calls,
                   result, merged, clicked_at>>

\* lines 863-866 / 970-980: the tile is not pasted
WorkerSkip ==
    /\ pc = "tile"
    /\ i \in call.skip
    /\ ~(i = call.bad /\ Opens(i))
    /\ i' = i + 1
    /\ pc' = "poll"
    /\ UNCHANGED <<inputs, step, coords, tiles, rows_t1, rows_t2, info_note, t2_used,
                   im2_ref, handles, dirs, files, manifest_files, calls, error,
                   result, merged, dialog>>

\* the canvas with the paste of tile k in state st
WithPaste(canvas, k, st) ==
    [j \in DOMAIN canvas \cup {k} |-> IF j = k THEN st ELSE canvas[j]]

\* line 869 / 987: canvas.paste(...) starts
WorkerPasteBegin ==
    /\ pc = "tile"
    /\ i \notin call.skip
    /\ i # call.bad
    /\ merged' = [merged EXCEPT !.canvas = WithPaste(@, i, "partial")]
    /\ pc' = "pasting"
    /\ UNCHANGED <<inputs, locals, handles, dirs, files, manifest_files, calls, error,
                   result, dialog>>

\* ... and returns; lines 870-872 / 989-991
WorkerPasteEnd ==
    /\ pc = "pasting"
    /\ merged' = [merged EXCEPT !.canvas = WithPaste(@, i, "whole")]
    /\ i' = i + 1
    /\ pc' = "poll"
    /\ UNCHANGED <<inputs, step, coords, tiles, rows_t1, rows_t2, info_note, t2_used,
                   im2_ref, handles, dirs, files, manifest_files, calls, error,
                   result, dialog>>

\* line 874 / 993: pd.close() schedules the destruction of the dialog
WorkerClose ==
    /\ pc = "close"
    /\ pd' = [pd EXCEPT !.closing = TRUE]
    /\ pc' = "check"
    /\ UNCHANGED <<inputs, locals, handles, dirs, files, manifest_files, calls, error,
                   result, merged, clicked_at>>

\* the output is saved whatever the flag says
AfterLoopAlwaysSaves(cancelled_now) == "save"

\* lines 875-879 / 994-998: the flag as read after the loop decides
AfterLoop(cancelled_now) == IF cancelled_now THEN "cancelled" ELSE "save"

WorkerCheck ==
    /\ pc = "check"
    /\ pc' = AfterLoop(pd.cancelled)
    /\ UNCHANGED <<inputs, locals, handles, dirs, files, manifest_files, calls, error,
                   result, merged, dialog>>

\* line 879 / 998: canvas.save(output)
WorkerSave ==
    /\ pc = "save"
    /\ merged' = [merged EXCEPT !.status = "saved"]
    /\ pc' = "saved"
    /\ UNCHANGED <<inputs, locals, handles, dirs, files, manifest_files, calls, error,
                   result, dialog>>

\* lines 141-143: the main loop runs the Cancel button's command
ClickCancel ==
    /\ pd.shown
    /\ ~pd.destroyed
    /\ ~pd.cancelled
    /\ pd' = [pd EXCEPT !.cancelled = TRUE]
    /\ clicked_at' = pc
    /\ UNCHANGED <<inputs, locals, pc, handles, dirs, files, manifest_files, calls,
                   error, result, merged>>

\* lines 170-177: the main loop runs the callback close() scheduled
DestroyDialog ==
    /\ pd.closing
    /\ ~pd.destroyed
    /\ pd' = [pd EXCEPT !.destroyed = TRUE]
    /\ UNCHANGED <<inputs, locals, pc, handles, dirs, files, manifest_files, calls,
                   error, result, merged, clicked_at>>

WorkerNext ==
    \/ WorkerStart
    \/ WorkerPollFlag
    \/ WorkerLoopEnd
    \/ WorkerOpenFail
    \/ WorkerSkip
    \/ WorkerPasteBegin
    \/ WorkerPasteEnd
    \/ WorkerClose
    \/ WorkerCheck
    \/ WorkerSave
    \/ ClickCancel
    \/ DestroyDialog

SpecWorker == WorkerInit /\ [][WorkerNext]_vars

(***************************************************************************)
(* Properties of the merge workers (specification SpecWorker).             *)
(***************************************************************************)
\* the worker has returned
WorkerFinished == pc \in {"saved", "cancelled", "failed"}

\* Cancel was clicked, and before the loop had ended
ClickedInLoop == clicked_at \in {"poll", "tile", "pasting"}

\* Cancel was clicked before the worker read the flag after the loop
ClickedBeforeCheck == ClickedInLoop \/ clicked_at \in {"close", "check"}

OutputSaved == merged.status = "saved"

\* C30 as stated: under any interleaving of the Cancel click with the paste
\* loop, the merged output file is written if and only if the cancel flag
\* is still unset when the loop has ended; the flag is polled only between
\* tiles, so a paste is never interrupted midway.
C30_SavedIffUnsetAtLoopEnd ==
    /\ pc \in {"saved", "cancelled"} => (OutputSaved <=> ~ClickedInLoop)
    /\ WorkerFinished => \A k \in DOMAIN merged.canvas : merged.canvas[k] = "whole"

\* C30, amended: the output file is written if and only if no tile raised
\* and the cancel flag is still unset when the worker reads it after the
\* loop and after pd.close(): a Cancel clicked before that read, in the loop
\* or after it, prevents the save, a Cancel clicked after it does not; a
\* paste once started is completed.
C30_SavedIffUnsetAtCheck ==
    /\ WorkerFinished => (OutputSaved <=> (pc # "failed" /\ ~ClickedBeforeCheck))
    /\ OutputSaved => pc = "saved"
    /\ WorkerFinished => \A k \in DOMAIN merged.canvas : merged.canvas[k] = "whole"
    /\ pc \in {"saved", "cancelled"} /\ ~ClickedInLoop =>
          DOMAIN merged.canvas = (0..(call.n - 1)) \ call.skip

\* Cancel was clicked after the loop had pasted every tile and before the
\* worker read the flag: nothing is saved
C30_Witness ==
    /\ pc = "cancelled"
    /\ clicked_at = "close"
    /\ i = call.n
    /\ Cardinality(DOMAIN merged.canvas) >= 2
    /\ ~OutputSaved

====
